---- MODULE Spec2Model ----
(***************************************************************************)
(* A model of the Black Arm controller (src/main.go): the command          *)
(* dispatcher of BlackArmController and the feedback acquisition           *)
(* functions QueryCurrentAngles, listenOneMotorRound, listenMotorParams;   *)
(* and of the web server's sequence transforms and playback                *)
(* (src/unnamed/part_000): mergeSequencesHandler, saveMergedSequence,      *)
(* executeSequenceAsync, executeSequenceDirect.                            *)
(*                                                                         *)
(* A float32 is represented by its 32-bit pattern, kept as two 16-bit      *)
(* halves [hi, lo] (TLC's integers are 32-bit signed).                     *)
(***************************************************************************)
EXTENDS Integers, Sequences, FiniteSets, TLC

\* ------------------------------------------------------------------ bounds
\* Joints per arm that are modelled (the arm of the code has 7).
NumJoints == 2
\* Longest address list handed to SetMotorZeroByIDs.
MaxZeroIDs == 2

VARIABLES
    \* the dispatcher
    ctl,        \* the BlackArmController: [Interface, MotorIDs]
    pc,         \* position of the caller: idle, spawn, recv, returned
    call,       \* the operation called and its arguments
    ret,        \* the error value the operation returned (Nil: success)
    sent,       \* the transport's record: every frame handed to Client.Post, in order
    spawned,    \* SetAngles: goroutines started so far
    recvd,      \* SetAngles: values received from errChan so far
    task,       \* SetAngles: the per-joint goroutines
    errChan,    \* SetAngles: the buffered channel of results
    delivered,  \* SetAngles: the joints in the order their results entered errChan
    \* one bounded feedback read (listenOneMotorRound or listenMotorParams)
    lpc,        \* idle, loop (at the head of the polling loop), returned
    lfn,        \* the function running: "round" or "params"
    lmotor,     \* the motor listened to
    now,        \* time.Now(), in ms since the read was called
    deadline,   \* the read's deadline, in ms since the read was called
    state,      \* listenOneMotorRound's streamState
    lret,       \* listenOneMotorRound's result [ok, val]
    pres,       \* listenMotorParams' locKp, spdKp, spdKi and its seen map
    stream,     \* the decoded frames the read has consumed, in order
    unread,     \* the message that was next in the response when the read returned, if any
    \* QueryCurrentAngles
    qpc,        \* idle, params, round, returned
    qids,       \* its motorIDs argument
    qi,         \* index of the motor whose angle is being read
    angles,     \* the angle map being built: motor -> value (absent: no entry)
    params,     \* the gain map being built
    qerr,       \* its error result
    settled,    \* history: the motors whose read settled before its deadline
    \* the codec on its own
    probe,      \* the last computation of the codec: its inputs and its results
    \* the web server: merging stored sequences
    JointSequences,  \* ws.config.JointSequences, the stored sequences
    req,        \* the merge request being answered, NoReq before the first
    written,    \* the files ioutil.WriteFile wrote for that request, in order
    response,   \* the ControlResponse of that request
    \* the web server: playing a sequence on one manipulator
    efn,        \* the function playing: its name and the delay it sleeps
    epc,        \* idle, keys (ranging over a way-point's Values), done
    sequence,   \* the JointSequence being played
    wp,         \* index of the way-point being played
    pending,    \* keys of its Values map the range loop has not reached yet
    trace,      \* history: the write attempts and the pauses, in order
    \* the web server and the command line: executing on one or both arms
    xfn,        \* the entry point that ran, "none" before
    xpc,        \* its position: idle, started, answered / running, returned
    xstep,      \* the step of the command-line execution it is at
    xin,        \* its input: the request or the file it was given
    xans,       \* what it answered: the HTTP status and the ControlResponse, or the error
    arm,        \* per side, the playback of that side's sequence [pc, wp, pending, seq]
    faults,     \* how many Posts the bridge has failed so far
    \* the web server: recording, saving, deleting and reloading sequences
    tempAngleRecords,  \* ws.tempAngleRecords: interface -> recorded way-points
    files,      \* the directory json: file name -> the JointSequence it holds
    saving,     \* the save request in flight: what it has read and where it is
    recno,      \* how many record requests were accepted
    owed,       \* history: the way-points recorded and not explicitly cleared
    live        \* history: the (name, side) pairs saved and not deleted since

dvars == <<ctl, pc, call, ret, spawned, recvd, task, errChan, delivered>>
lvars == <<lpc, lfn, lmotor, now, deadline, state, lret, pres, stream, unread>>
qvars == <<qpc, qids, qi, angles, params, qerr, settled>>
mvars == <<JointSequences, req, written, response>>
evars == <<efn, epc, sequence, wp, pending, trace>>
xvars == <<xfn, xpc, xstep, xin, xans, arm, faults>>
svars == <<tempAngleRecords, files, saving, recno, owed, live>>
wvars == <<mvars, evars, xvars, svars>>
vars  == <<dvars, sent, lvars, qvars, probe, wvars>>

\* ------------------------------------------------------------ byte helpers
F32(hi, lo) == [hi |-> hi, lo |-> lo]

\* C12 mutant: the bytes are written highest first
PutUint32_BigEndian(u) == << u.hi \div 256, u.hi % 256, u.lo \div 256, u.lo % 256 >>

\* binary.LittleEndian.PutUint32(buf, math.Float32bits(v))
PutUint32(u) == << u.lo % 256, u.lo \div 256, u.hi % 256, u.hi \div 256 >>

One      == F32(16256, 0)      \* 1.0f   = 0x3F800000
MinusTwo == F32(49152, 0)      \* -2.0f  = 0xC0000000
Zero32   == F32(0, 0)          \* 0.0f
QuietNaN == F32(32704, 1)      \* a NaN  = 0x7FC00001

\* float64(v) of a float32 v: the same number, widened
Float64(v) == [from32 |-> v]
Zero64 == Float64(Zero32)

\* ------------------------------------------------------------- controller
LeftIDs  == [i \in 1..NumJoints |-> 60 + i]
RightIDs == [i \in 1..NumJoints |-> 50 + i]

\* strings.Contains(deviceName, word), a device name being a list of words
Contains(deviceName, word) == \E i \in 1..Len(deviceName) : deviceName[i] = word

DeviceNames ==
    { <<"left", "black", "arm">>, <<"right", "black", "arm">>,
      <<"black", "arm">>, <<"right", "left">> }

NewBlackArmController(interface, deviceName) ==
    [ Interface |-> interface,
      MotorIDs  |-> IF Contains(deviceName, "left") THEN LeftIDs
                    ELSE IF Contains(deviceName, "right") THEN RightIDs
                    ELSE RightIDs ]

isValidJoint(b, jointID) ==
    \E i \in 1..Len(b.MotorIDs) : b.MotorIDs[i] = jointID

\* ------------------------------------------------------------ error values
Nil == [op |-> "nil", kind |-> "nil", motor |-> 0]
Err(op, kind, motor) == [op |-> op, kind |-> kind, motor |-> motor]

\* What the bridge may answer to one Post: no answer at all, or a status.
Answers    == {"neterr", "200", "500"}
BadAnswers == {"neterr", "201", "500"}

\* sendCommand: nil exactly when the Post returned and the status is 200
sendCommand(answer) ==
    IF answer = "neterr" THEN "post"
    ELSE IF answer # "200" THEN "status"
    ELSE "nil"

\* ------------------------------------------------------------------ frames
CANMessage(b, id, data) ==
    [Interface |-> b.Interface, ID |-> id, Data |-> data, Extended |-> TRUE]

\* 0x1200FD00 + motorID, data {sub, 0x70, 0, 0} + little-endian float32
ParamFrame(b, sub, motorID, v) ==
    CANMessage(b, 302054656 + motorID, <<sub, 112, 0, 0>> \o PutUint32(v))

SetAngleFrame(b, jointID, angle) == ParamFrame(b, 22, jointID, angle)
SetSpeedFrame(b, jointID, speed) == ParamFrame(b, 36, jointID, speed)
LocKpFrame(b, motorID, kp)       == ParamFrame(b, 30, motorID, kp)
SpeedKpFrame(b, motorID, kp)     == ParamFrame(b, 31, motorID, kp)
SpeedKiFrame(b, motorID, ki)     == ParamFrame(b, 32, motorID, ki)
FiltGainFrame(b, motorID, gain)  == ParamFrame(b, 33, motorID, gain)

setModeCommand(b, motorID) ==
    CANMessage(b, 302054656 + motorID, <<5, 112, 0, 0, 1, 0, 0, 0>>)
enableCommand(b, motorID) ==
    CANMessage(b, 50396416 + motorID, <<0, 0, 0, 0, 0, 0, 0, 0>>)
DisableFrame(b, motorID) ==
    CANMessage(b, 67173632 + motorID, <<0, 0, 0, 0, 0, 0, 0, 0>>)
\* C15 mutant: clear-fault without its flag byte
CleanErrorFrame_NoFlag(b, motorID) ==
    CANMessage(b, 67173632 + motorID, <<0, 0, 0, 0, 0, 0, 0, 0>>)
CleanErrorFrame(b, motorID) ==
    CANMessage(b, 67173632 + motorID, <<1, 0, 0, 0, 0, 0, 0, 0>>)
setSingleMotorZeroFrame(b, motorID) ==
    CANMessage(b, 100728064 + motorID, <<1, 0, 0, 0, 0, 0, 0, 0>>)

\* The motor a write frame addresses: the low byte of its identifier.
FrameMotor(f) == f.ID % 256

\* ------------------------------------------------------------------ inputs
\* Motor ids offered to the operations: members of either arm and strangers.
JointInputs == {51, 52, 61, 70}
Vals == {One, MinusTwo}

\* Seq(S) up to a length
RECURSIVE SeqsUpTo(_, _)
SeqsUpTo(S, n) ==
    IF n = 0 THEN { <<>> }
    ELSE LET shorter == SeqsUpTo(S, n - 1)
         IN  shorter \cup { Append(q, x) : q \in { r \in shorter : Len(r) = n - 1 }, x \in S }

\* The motor-id strings given to EnableMotor: the all-joints word (a fixed
\* non-hexadecimal string in the code) or a string of characters.
AllJoints == << "all_joints" >>
MotorStrings == SeqsUpTo({"3", "5", "d", "z"}, 2) \cup {AllJoints, << "1", "0", "0" >>}

HexChars == << "0", "1", "2", "3", "4", "5", "6", "7",
               "8", "9", "a", "b", "c", "d", "e", "f" >>

\* the value of a hexadecimal digit, -1 for any other character
HexDigitOf(c) ==
    IF \E i \in 1..16 : HexChars[i] = c
    THEN (CHOOSE i \in 1..16 : HexChars[i] = c) - 1
    ELSE -1

\* the characters that occur in the strings of the model, and their digit values
Chars == { HexChars[i] : i \in 1..16 } \cup {"z"}
HexDigitTable == [c \in Chars |-> HexDigitOf(c)]
HexDigit(c) == HexDigitTable[c]

\* fmt.Sscanf(s, "%x", &motor): the leading run of hex digits, read in base 16;
\* an error when the string does not start with a hex digit.  What follows the
\* digits is left unread.
RECURSIVE ScanHexFrom(_, _, _)
ScanHexFrom(s, i, acc) ==
    IF i > Len(s) \/ HexDigit(s[i]) < 0 THEN acc
    ELSE ScanHexFrom(s, i + 1, acc * 16 + HexDigit(s[i]))

Sscanf(s) ==
    IF Len(s) = 0 \/ HexDigit(s[1]) < 0
    THEN [ok |-> FALSE, motor |-> 0]
    ELSE [ok |-> TRUE, motor |-> ScanHexFrom(s, 1, 0)]

NoCall == [op |-> "none", name |-> <<>>, id |-> 0, val |-> Zero32,
           ids |-> <<>>, vals |-> <<>>]
Call(op, name, id, val, ids, vals) ==
    [op |-> op, name |-> name, id |-> id, val |-> val, ids |-> ids, vals |-> vals]

\* --------------------------------------------------- sequential operations
\* What an operation decides before its first Post: a validation error, or the
\* frames it will post, in order.
Plan(err, frames) == [err |-> err, frames |-> frames]

RECURSIVE Flatten(_)
Flatten(ss) == IF ss = <<>> THEN <<>> ELSE Head(ss) \o Flatten(Tail(ss))

\* C11 mutant: the drive is enabled before its mode is set
enableSingleMotor_EnableFirst(b, motorID) ==
    << enableCommand(b, motorID), setModeCommand(b, motorID) >>

\* the two frames of enableSingleMotor, in the order they are posted
enableSingleMotor(b, motorID) == << setModeCommand(b, motorID), enableCommand(b, motorID) >>

EnableMotor(b, motorID) ==
    IF motorID = AllJoints
    THEN Plan(Nil, Flatten([i \in 1..Len(b.MotorIDs) |-> enableSingleMotor(b, b.MotorIDs[i])]))
    ELSE LET scan == Sscanf(motorID)
         IN  IF ~scan.ok THEN Plan(Err("EnableMotor", "invalid", 0), <<>>)
             ELSE Plan(Nil, enableSingleMotor(b, scan.motor))

DisableMotor(b) ==
    Plan(Nil, [i \in 1..Len(b.MotorIDs) |-> DisableFrame(b, b.MotorIDs[i])])

SetMotorZero(b) ==
    Plan(Nil, [i \in 1..Len(b.MotorIDs) |-> setSingleMotorZeroFrame(b, b.MotorIDs[i])])

\* the listed ids that are joints of the arm, in the order listed
RECURSIVE ValidOnly(_, _)
ValidOnly(b, ids) ==
    IF ids = <<>> THEN <<>>
    ELSE IF isValidJoint(b, Head(ids))
         THEN <<Head(ids)>> \o ValidOnly(b, Tail(ids))
         ELSE ValidOnly(b, Tail(ids))

\* C20 mutant: an address outside the arm fails the call
SetMotorZeroByIDs_RejectsStranger(b, motorIDs) ==
    IF Len(motorIDs) = 0 THEN SetMotorZero(b)
    ELSE IF \E i \in 1..Len(motorIDs) : ~isValidJoint(b, motorIDs[i])
         THEN Plan(Err("SetMotorZeroByIDs", "invalid", 0), <<>>)
         ELSE Plan(Nil, [i \in 1..Len(motorIDs) |-> setSingleMotorZeroFrame(b, motorIDs[i])])

SetMotorZeroByIDs(b, motorIDs) ==
    IF Len(motorIDs) = 0 THEN SetMotorZero(b)
    ELSE LET valid == ValidOnly(b, motorIDs)
         IN  Plan(Nil, [i \in 1..Len(valid) |-> setSingleMotorZeroFrame(b, valid[i])])

CleanError(b) ==
    Plan(Nil, [i \in 1..Len(b.MotorIDs) |-> CleanErrorFrame(b, b.MotorIDs[i])])

SetAngle(b, jointID, angle) ==
    IF ~isValidJoint(b, jointID) THEN Plan(Err("SetAngle", "invalid", jointID), <<>>)
    ELSE Plan(Nil, << SetAngleFrame(b, jointID, angle) >>)

SetSpeed(b, jointID, speed) ==
    IF ~isValidJoint(b, jointID) THEN Plan(Err("SetSpeed", "invalid", jointID), <<>>)
    ELSE Plan(Nil, << SetSpeedFrame(b, jointID, speed) >>)

SetSpeeds(b, speeds) ==
    IF Len(speeds) # Len(b.MotorIDs) THEN Plan(Err("SetSpeeds", "arity", 0), <<>>)
    ELSE Plan(Nil, Flatten([i \in 1..Len(b.MotorIDs) |->
                               SetSpeed(b, b.MotorIDs[i], speeds[i]).frames]))

SetMotorLocKp(b, motorID, kp) ==
    IF ~isValidJoint(b, motorID) THEN Plan(Err("SetMotorLocKp", "invalid", motorID), <<>>)
    ELSE Plan(Nil, << LocKpFrame(b, motorID, kp) >>)

SetMotorSpeedKp(b, motorID, kp) ==
    IF ~isValidJoint(b, motorID) THEN Plan(Err("SetMotorSpeedKp", "invalid", motorID), <<>>)
    ELSE Plan(Nil, << SpeedKpFrame(b, motorID, kp) >>)

SetMotorSpeedKi(b, motorID, ki) ==
    IF ~isValidJoint(b, motorID) THEN Plan(Err("SetMotorSpeedKi", "invalid", motorID), <<>>)
    ELSE Plan(Nil, << SpeedKiFrame(b, motorID, ki) >>)

SetMotorSpeedFiltGain(b, motorID, gain) ==
    IF ~isValidJoint(b, motorID)
    THEN Plan(Err("SetMotorSpeedFiltGain", "invalid", motorID), <<>>)
    ELSE Plan(Nil, << FiltGainFrame(b, motorID, gain) >>)

\* The frames of a plan are posted in order and the first Post that fails ends
\* the operation: the bridge answers 200 up to the k-th Post, which it answers
\* with bad (k = 0: it answers 200 throughout).
\* C4 mutant: the Post that failed is tried once more
Submitted_Retry(frames, k, bad) ==
    [i \in 1..(IF k = 0 THEN Len(frames) ELSE k + 1) |->
        IF k # 0 /\ i = k + 1
        THEN [frame |-> frames[k], answer |-> "200"]
        ELSE [frame |-> frames[i], answer |-> IF i = k THEN bad ELSE "200"]]

Submitted(frames, k, bad) ==
    [i \in 1..(IF k = 0 THEN Len(frames) ELSE k) |->
        [frame |-> frames[i], answer |-> IF i = k THEN bad ELSE "200"]]

Outcome(op, plan, k, bad) ==
    IF plan.err # Nil THEN plan.err
    ELSE IF k = 0 THEN Nil
    ELSE Err(op, sendCommand(bad), FrameMotor(plan.frames[k]))

Run(c, plan) ==
    /\ pc = "idle"
    /\ \E k \in 0..Len(plan.frames), bad \in BadAnswers :
          /\ k = 0 => bad = "neterr"
          /\ sent' = sent \o Submitted(plan.frames, k, bad)
          /\ ret' = Outcome(c.op, plan, k, bad)
    /\ call' = c
    /\ pc' = "returned"
    /\ UNCHANGED <<ctl, spawned, recvd, task, errChan, delivered, lvars, qvars, probe, wvars>>

DoEnableMotor ==
    \E s \in MotorStrings :
        Run(Call("EnableMotor", s, 0, Zero32, <<>>, <<>>), EnableMotor(ctl, s))
DoDisableMotor ==
    Run(Call("DisableMotor", <<>>, 0, Zero32, <<>>, <<>>), DisableMotor(ctl))
DoSetMotorZero ==
    Run(Call("SetMotorZero", <<>>, 0, Zero32, <<>>, <<>>), SetMotorZero(ctl))
DoSetMotorZeroByIDs ==
    \E ids \in SeqsUpTo(JointInputs, MaxZeroIDs) :
        Run(Call("SetMotorZeroByIDs", <<>>, 0, Zero32, ids, <<>>), SetMotorZeroByIDs(ctl, ids))
DoCleanError ==
    Run(Call("CleanError", <<>>, 0, Zero32, <<>>, <<>>), CleanError(ctl))
DoSetAngle ==
    \E j \in JointInputs, v \in Vals :
        Run(Call("SetAngle", <<>>, j, v, <<>>, <<>>), SetAngle(ctl, j, v))
DoSetSpeed ==
    \E j \in JointInputs, v \in Vals :
        Run(Call("SetSpeed", <<>>, j, v, <<>>, <<>>), SetSpeed(ctl, j, v))
DoSetSpeeds ==
    \E vs \in SeqsUpTo(Vals, NumJoints + 1) :
        Run(Call("SetSpeeds", <<>>, 0, Zero32, <<>>, vs), SetSpeeds(ctl, vs))
DoSetMotorLocKp ==
    \E j \in JointInputs, v \in Vals :
        Run(Call("SetMotorLocKp", <<>>, j, v, <<>>, <<>>), SetMotorLocKp(ctl, j, v))
DoSetMotorSpeedKp ==
    \E j \in JointInputs, v \in Vals :
        Run(Call("SetMotorSpeedKp", <<>>, j, v, <<>>, <<>>), SetMotorSpeedKp(ctl, j, v))
DoSetMotorSpeedKi ==
    \E j \in JointInputs, v \in Vals :
        Run(Call("SetMotorSpeedKi", <<>>, j, v, <<>>, <<>>), SetMotorSpeedKi(ctl, j, v))
DoSetMotorSpeedFiltGain ==
    \E j \in JointInputs, v \in Vals :
        Run(Call("SetMotorSpeedFiltGain", <<>>, j, v, <<>>, <<>>),
            SetMotorSpeedFiltGain(ctl, j, v))

\* ------------------------------------------------------------- SetAngles
NoTask == [st |-> "none", id |-> 0, angle |-> Zero32, res |-> Nil]

\* The arity check, then make(chan error, len(b.MotorIDs)).
\* C1 mutant: the guard only rejects too few angles
ArityMismatch_TooFewOnly(b, angles_) == Len(angles_) < Len(b.MotorIDs)

\* if len(angles) != len(b.MotorIDs)
ArityMismatch(b, angles_) == Len(angles_) # Len(b.MotorIDs)

SetAnglesBegin(op, angles_) ==
    /\ pc = "idle"
    /\ call' = Call(op, <<>>, 0, Zero32, <<>>, angles_)
    /\ IF ArityMismatch(ctl, angles_)
       THEN /\ ret' = Err("SetAngles", "arity", 0)
            /\ pc' = "returned"
       ELSE /\ ret' = Nil
            /\ pc' = "spawn"
    /\ UNCHANGED <<ctl, sent, spawned, recvd, task, errChan, delivered, lvars, qvars, probe, wvars>>

DoSetAngles ==
    \E vs \in SeqsUpTo(Vals, NumJoints + 1) : SetAnglesBegin("SetAngles", vs)

\* ReturnZero: SetAngles of len(b.MotorIDs) zeros
DoReturnZero ==
    SetAnglesBegin("ReturnZero", [i \in 1..Len(ctl.MotorIDs) |-> Zero32])

\* The arguments the i-th goroutine is started with: go func(id, angle){...}(motorID, angles[i])
GoArgs(b, angles_, i) == [id |-> b.MotorIDs[i], angle |-> angles_[i]]

\* for i, motorID := range b.MotorIDs { go func ... }
Spawn ==
    /\ pc = "spawn"
    /\ LET i == spawned + 1
           a == GoArgs(ctl, call.vals, i)
       IN  /\ task' = [task EXCEPT ![i] = [st |-> "ready", id |-> a.id,
                                           angle |-> a.angle, res |-> Nil]]
           /\ spawned' = i
           /\ pc' = IF i = Len(ctl.MotorIDs) THEN "recv" ELSE "spawn"
    /\ UNCHANGED <<ctl, call, ret, sent, recvd, errChan, delivered, lvars, qvars, probe, wvars>>

\* A goroutine runs b.SetAngle(id, angle): one Post, answered by the bridge.
TaskSend(i) ==
    /\ task[i].st = "ready"
    /\ LET plan == SetAngle(ctl, task[i].id, task[i].angle)
       IN  IF plan.err # Nil
           THEN /\ task' = [task EXCEPT ![i].st = "sent", ![i].res = plan.err]
                /\ sent' = sent
           ELSE \E answer \in Answers :
                /\ sent' = Append(sent, [frame |-> plan.frames[1], answer |-> answer])
                /\ task' = [task EXCEPT ![i].st = "sent",
                              ![i].res = IF sendCommand(answer) = "nil" THEN Nil
                                         ELSE Err("SetAngle", sendCommand(answer), task[i].id)]
    /\ UNCHANGED <<ctl, pc, call, ret, spawned, recvd, errChan, delivered, lvars, qvars, probe, wvars>>

\* cap(errChan)
\* C34 mutant: one slot fewer than there are tasks
ChanCap_OneShort(b) == Len(b.MotorIDs) - 1

ChanCap(b) == Len(b.MotorIDs)

\* errChan <- result: blocks while the channel is full
TaskDeliver(i) ==
    /\ task[i].st = "sent"
    /\ Len(errChan) < ChanCap(ctl)
    /\ errChan' = Append(errChan, task[i].res)
    /\ delivered' = Append(delivered, i)
    /\ task' = [task EXCEPT ![i].st = "done"]
    /\ UNCHANGED <<ctl, pc, call, ret, sent, spawned, recvd, lvars, qvars, probe, wvars>>

\* C3 mutant: every value received is dropped, nil is returned after the last
AfterReceive_DropsError(b, err, n) ==
    IF n + 1 = Len(b.MotorIDs) THEN [pc |-> "returned", ret |-> Nil]
    ELSE [pc |-> "recv", ret |-> Nil]

\* What SetAngles does with a value received from errChan, recvd values having
\* been received before it: return it when it is an error; return nil after the
\* last one; otherwise go on receiving.
AfterReceive(b, err, n) ==
    IF err # Nil THEN [pc |-> "returned", ret |-> err]
    ELSE IF n + 1 = Len(b.MotorIDs) THEN [pc |-> "returned", ret |-> Nil]
    ELSE [pc |-> "recv", ret |-> Nil]

\* for i := 0; i < len(b.MotorIDs); i++ { if err := <-errChan; err != nil { return err } }
Receive ==
    /\ pc = "recv"
    /\ errChan # <<>>
    /\ LET r == AfterReceive(ctl, Head(errChan), recvd)
       IN  /\ pc' = r.pc
           /\ ret' = r.ret
    /\ errChan' = Tail(errChan)
    /\ recvd' = recvd + 1
    /\ UNCHANGED <<ctl, call, sent, spawned, task, delivered, lvars, qvars, probe, wvars>>

\* --------------------------------------------------------- the dispatcher
None == [some |-> FALSE, v |-> Zero32]
Some(v) == [some |-> TRUE, v |-> v]

NoState == [seen |-> {}, prevBits |-> Zero32, prevVal |-> Zero32,
            havePrev |-> FALSE, repeats |-> 0, captured |-> FALSE]
NoParams == [locKp |-> None, spdKp |-> None, spdKi |-> None, seen |-> {}]

LIdle ==
    /\ lpc = "idle" /\ lfn = "none" /\ lmotor = 0 /\ now = 0 /\ deadline = 0
    /\ state = NoState /\ lret = [ok |-> FALSE, val |-> Zero64]
    /\ pres = NoParams /\ stream = <<>> /\ unread = <<>>

QIdle ==
    /\ qpc = "idle" /\ qids = <<>> /\ qi = 0 /\ angles = <<>> /\ params = <<>>
    /\ qerr = Nil /\ settled = {}

NoProbe == [fn |-> "none"]

NoReq == [Sequence1Name |-> <<>>, Sequence2Name |-> <<>>, MergedName |-> <<>>,
          ArmModel |-> ""]
NoResponse == [Success |-> FALSE, Message |-> "none", up |-> <<>>, down |-> <<>>]

MIdle == req = NoReq /\ written = <<>> /\ response = NoResponse

NoSequence == [Name |-> <<>>, ArmType |-> "", ArmModel |-> "", Angles |-> <<>>]

NoPlayer == [name |-> "none", delay |-> 0]

EIdle ==
    /\ efn = NoPlayer /\ epc = "idle" /\ sequence = NoSequence /\ wp = 0
    /\ pending = {} /\ trace = <<>>

NoAnswer == [status |-> 0, Success |-> FALSE, Message |-> "none"]

NoArm == [pc |-> "idle", wp |-> 0, pending |-> {}, seq |-> NoSequence, current |-> << >>]

NoFile == [Interface |-> "", SequenceName |-> <<>>, FileName |-> <<>>, exists |-> FALSE,
           JointSequences |-> <<>>, program |-> <<>>]

XIdle ==
    /\ xfn = "none" /\ xpc = "idle" /\ xstep = 0 /\ xin = NoFile /\ xans = NoAnswer
    /\ arm = [side \in {"left", "right"} |-> NoArm]
    /\ faults = 0

NoSave == [pc |-> "idle", Interface |-> "", Name |-> <<>>, ArmModel |-> "",
           tempRecords |-> <<>>]

SIdle ==
    /\ tempAngleRecords = [i \in {"can0", "can1"} |-> <<>>]
    /\ files = << >> /\ saving = NoSave /\ recno = 0 /\ owed = {} /\ live = {}

DIdle ==
    /\ pc = "idle" /\ call = NoCall /\ ret = Nil
    /\ spawned = 0 /\ recvd = 0
    /\ task = [i \in 1..NumJoints |-> NoTask]
    /\ errChan = <<>> /\ delivered = <<>>

Init ==
    /\ ctl \in { NewBlackArmController("can0", d) : d \in DeviceNames }
    /\ sent = <<>>
    /\ DIdle /\ LIdle /\ QIdle
    /\ probe = NoProbe
    /\ JointSequences = <<>> /\ MIdle /\ EIdle /\ XIdle /\ SIdle

Next ==
    \/ DoEnableMotor
    \/ DoDisableMotor
    \/ DoSetMotorZero
    \/ DoSetMotorZeroByIDs
    \/ DoCleanError
    \/ DoSetAngle
    \/ DoSetSpeed
    \/ DoSetSpeeds
    \/ DoSetMotorLocKp
    \/ DoSetMotorSpeedKp
    \/ DoSetMotorSpeedKi
    \/ DoSetMotorSpeedFiltGain
    \/ DoSetAngles
    \/ DoReturnZero
    \/ Spawn
    \/ \E i \in 1..NumJoints : TaskSend(i)
    \/ \E i \in 1..NumJoints : TaskDeliver(i)
    \/ Receive

Spec == Init /\ [][Next]_vars

\* ===================================================== dispatcher claims
IsSetAngles == call.op \in {"SetAngles", "ReturnZero"}
Matching    == Len(call.vals) = Len(ctl.MotorIDs)

\* C1: SetAngles called with a number of angles different from the joint
\* count returns an error, submits no frame and starts no per-joint task.
C1_ArityGuard ==
    (call.op = "SetAngles" /\ ~Matching) =>
        /\ pc = "returned"
        /\ ret # Nil
        /\ sent = <<>>
        /\ spawned = 0
        /\ \A i \in 1..NumJoints : task[i].st = "none"

\* C1 witness: SetAngles was called with one angle too many and has returned.
C1_Witness ==
    /\ call.op = "SetAngles"
    /\ Len(call.vals) = Len(ctl.MotorIDs) + 1
    /\ pc = "returned"

\* C2 (as claimed): with a matching count, joint i is sent angles[i], one send
\* per joint, and SetAngles has not returned while a per-joint send is still
\* to complete.
C2_WaitsForAll ==
    (IsSetAngles /\ Matching) =>
        /\ \A i \in 1..spawned :
              /\ task[i].id = ctl.MotorIDs[i]
              /\ task[i].angle = call.vals[i]
        /\ Len(sent) <= Len(ctl.MotorIDs)
        /\ pc = "returned" =>
              \A i \in 1..Len(ctl.MotorIDs) : task[i].st \in {"sent", "done"}

\* the first failing result in the order the results entered errChan
FirstFailure ==
    LET failing == { k \in 1..Len(delivered) : task[delivered[k]].res # Nil }
    IN  IF failing = {} THEN Nil
        ELSE task[delivered[CHOOSE k \in failing : \A j \in failing : k <= j]].res

\* C3: with a matching count, SetAngles returns nil only when every per-joint
\* send has completed and succeeded, and otherwise returns the first failure
\* in the order in which the tasks completed (delivered their results).
C3_FirstError ==
    (IsSetAngles /\ Matching /\ pc = "returned") =>
        /\ ret = Nil <=> \A i \in 1..Len(ctl.MotorIDs) :
                             task[i].st = "done" /\ task[i].res = Nil
        /\ ret # Nil => ret = FirstFailure

\* C3 witness: two tasks completed with a failure and SetAngles has returned
\* the one that completed first.
C3_Witness ==
    /\ IsSetAngles /\ Matching /\ pc = "returned"
    /\ Cardinality({ k \in 1..Len(delivered) : task[delivered[k]].res # Nil }) >= 2
    /\ ret = FirstFailure

\* how often a frame was handed to the transport
Count(f) == Cardinality({ p \in 1..Len(sent) : sent[p].frame = f })

\* how often the arguments of the call name the motor of a frame
Occurrences(m) ==
    IF call.op = "SetMotorZeroByIDs" /\ Len(call.ids) > 0
    THEN Cardinality({ i \in 1..Len(call.ids) : call.ids[i] = m })
    ELSE 1

\* after a failed send, no frame goes to a motor that had a frame before it
NoFrameAfterFailure ==
    \A f \in 1..Len(sent) : sent[f].answer # "200" =>
        \A q \in (f + 1)..Len(sent) : \A p \in 1..f :
            FrameMotor(sent[p].frame) # FrameMotor(sent[q].frame)

\* C4 (as claimed): within one call every (motor, frame) pair is submitted at
\* most once, and after a failed send no frame goes to a motor whose frame
\* was already submitted.
C4_AtMostOnce ==
    /\ \A p \in 1..Len(sent) : Count(sent[p].frame) <= 1
    /\ NoFrameAfterFailure

\* C4 (amended): within one call every (motor, frame) pair is submitted at
\* most once for each time the arguments name the motor (once, except for a
\* set-zero address list that repeats an address), and after a failed send
\* no frame goes to a motor whose frame was already submitted.
C4_NoRetry ==
    /\ \A p \in 1..Len(sent) :
          Count(sent[p].frame) <= Occurrences(FrameMotor(sent[p].frame))
    /\ NoFrameAfterFailure

\* C4 witness: a send failed and a frame of another motor was submitted after it.
C4_Witness ==
    \E f \in 1..Len(sent) : sent[f].answer # "200" /\ f < Len(sent)

SingleJointOps ==
    {"SetAngle", "SetSpeed", "SetMotorLocKp", "SetMotorSpeedKp",
     "SetMotorSpeedKi", "SetMotorSpeedFiltGain"}

\* the call names one motor, and it is not a joint of the arm
StrangerNamed ==
    \/ call.op \in SingleJointOps /\ ~isValidJoint(ctl, call.id)
    \/ /\ call.op = "EnableMotor" /\ call.name # AllJoints
       /\ Sscanf(call.name).ok
       /\ ~isValidJoint(ctl, Sscanf(call.name).motor)

\* C10 (as claimed): every single-joint operation, enable of one named motor
\* included, called with a motor id that is not in MotorIDs fails and submits
\* no frame.
C10_AddressGuard ==
    StrangerNamed => (pc = "returned" /\ ret # Nil /\ sent = <<>>)

\* the command byte of a write identifier, and the rest of it
CommandByte(f) == f.ID \div 16777216
Address(f)     == f.ID % 16777216

IsSetMode(f) == CommandByte(f) = 18 /\ f.Data = <<5, 112, 0, 0, 1, 0, 0, 0>>
IsEnable(f)  == CommandByte(f) = 3

\* the motors a call names
NamedMotors ==
    IF call.op \in SingleJointOps THEN {call.id}
    ELSE IF call.op = "EnableMotor" /\ call.name # AllJoints THEN {Sscanf(call.name).motor}
    ELSE IF call.op = "SetMotorZeroByIDs" /\ Len(call.ids) > 0
         THEN {call.ids[i] : i \in 1..Len(call.ids)}
    ELSE {ctl.MotorIDs[i] : i \in 1..Len(ctl.MotorIDs)}

\* C13: every write frame submitted for a motor m is an extended frame whose
\* identifier is commandByte<<24 | 0xFD00 | m: its low byte is m, its bits
\* 8-15 are 0xFD and its top byte is one of the command bytes, also when m
\* reached enable as a hex string.
C13_Identifier ==
    \A p \in 1..Len(sent) :
        LET f == sent[p].frame
        IN  /\ f.Extended
            /\ f.ID % 256 \in NamedMotors
            /\ (f.ID \div 256) % 256 = 253
            /\ CommandByte(f) \in {3, 4, 6, 18}
            /\ f.ID = CommandByte(f) * 16777216 + 64768 + (f.ID % 256)

IsSetZero(f) == CommandByte(f) = 6 /\ f.Data = <<1, 0, 0, 0, 0, 0, 0, 0>>

Members == {ctl.MotorIDs[i] : i \in 1..Len(ctl.MotorIDs)}

\* the motors of the frames submitted, in order
SentMotors == [p \in 1..Len(sent) |-> sent[p].frame.ID % 256]

\* C20: a set-zero by address list in which no send failed returns nil, having
\* submitted set-zero frames only: one to every motor of the arm, in order,
\* when the list is empty; otherwise one for each listed address that is a
\* motor of the arm and none for the others - no frame at all when every
\* listed address is outside the arm.
C20_SetZeroSubset ==
    (/\ call.op = "SetMotorZeroByIDs" /\ pc = "returned"
     /\ \A p \in 1..Len(sent) : sent[p].answer = "200") =>
        /\ ret = Nil
        /\ \A p \in 1..Len(sent) : IsSetZero(sent[p].frame)
        /\ IF Len(call.ids) = 0
           THEN SentMotors = ctl.MotorIDs
           ELSE /\ Len(sent) = Cardinality({i \in 1..Len(call.ids) : call.ids[i] \in Members})
                /\ \A m \in Members :
                      Cardinality({p \in 1..Len(sent) : SentMotors[p] = m}) =
                      Cardinality({i \in 1..Len(call.ids) : call.ids[i] = m})
                /\ \A p \in 1..Len(sent) : SentMotors[p] \in Members

\* C20 witness: every listed address was outside the arm; the call returned
\* nil without a frame.
C20_Witness ==
    /\ call.op = "SetMotorZeroByIDs" /\ pc = "returned"
    /\ Len(call.ids) > 0
    /\ \A i \in 1..Len(call.ids) : call.ids[i] \notin Members
    /\ ret = Nil /\ sent = <<>>

\* C11: the frames of an enable go out motor by motor as set-mode then
\* drive-enable; a drive-enable frame directly follows the set-mode frame of
\* the same motor, which was answered 200; and an enable in which a send
\* failed returns an error.
C11_EnableOrder ==
    call.op = "EnableMotor" =>
        /\ \A p \in 1..Len(sent) :
              IF p % 2 = 1
              THEN IsSetMode(sent[p].frame)
              ELSE /\ IsEnable(sent[p].frame)
                   /\ Address(sent[p].frame) = Address(sent[p - 1].frame)
                   /\ sent[p - 1].answer = "200"
        /\ (\E p \in 1..Len(sent) : sent[p].answer # "200") => ret # Nil
        /\ (pc = "returned" /\ ret = Nil) => Len(sent) % 2 = 0

\* C11 witness: the set-mode frame of the second motor failed; its
\* drive-enable frame was not sent and the enable returned an error.
C11_Witness ==
    /\ call.op = "EnableMotor" /\ pc = "returned"
    /\ Len(sent) = 3 /\ sent[3].answer # "200"
    /\ ret # Nil

\* ======================================================= feedback reads
\* bounds of the feedback model
\* Decoded frames one read may consume before the bridge falls silent.
MaxStream == 4
\* Frames in one poll response.
MaxMsgs == 2

\* program constants
idxLocRef == 28694     \* 0x7016
idxLocKp  == 28702     \* 0x701E
idxSpdKp  == 28703     \* 0x701F
idxSpdKi  == 28704     \* 0x7020
RoundBudget  == 2000   \* ms, listenOneMotorRound's default and QueryCurrentAngles' argument
ParamsBudget == 500    \* ms, QueryCurrentAngles' argument to listenMotorParams
ErrSleep  == 60        \* ms slept after a failed poll
PollSleep == 80        \* ms slept after every other poll

\* Time passes in the sleeps of the loop; a client.Get is taken to answer at
\* once (a slower answer only brings the deadline closer).

\* --- the bridge's side: a frame as two-digit hex tokens, lowest byte first
Token(byte) == << HexChars[(byte \div 16) + 1], HexChars[(byte % 16) + 1] >>

RespMsg(idx, u) ==
    [HexData |-> [i \in 1..8 |->
        Token((<< idx % 256, idx \div 256, 0, 0 >> \o PutUint32(u))[i])]]
\* a frame with fewer than 8 data bytes
ShortMsg(idx) == [HexData |-> << Token(idx % 256), Token(idx \div 256), Token(0), Token(0) >>]
\* --- the decoder
RECURSIVE HexValue(_, _, _)
HexValue(s, i, acc) ==
    IF i > Len(s) THEN acc ELSE HexValue(s, i + 1, acc * 16 + HexDigit(s[i]))

\* v, _ := strconv.ParseUint(s, 16, 8); return byte(v)
\* (0 on a syntax error, the largest value on a range error)
parseHexByte(s) ==
    IF Len(s) = 0 \/ \E i \in 1..Len(s) : HexDigit(s[i]) < 0 THEN 0
    ELSE IF HexValue(s, 1, 0) > 255 THEN 255
    ELSE HexValue(s, 1, 0)

\* idx from HexData[0..1], u from HexData[4..7] (Go's indices), little-endian
DecodeIdx(h) == parseHexByte(h[1]) + parseHexByte(h[2]) * 256
DecodeBits(h) ==
    F32(parseHexByte(h[7]) + parseHexByte(h[8]) * 256,
        parseHexByte(h[5]) + parseHexByte(h[6]) * 256)

\* what the loop body reads off one message: whether it is long enough, and
\* if so its index and value bits
Decode(m) ==
    IF Len(m.HexData) < 8 THEN [long |-> FALSE, idx |-> 0, u |-> Zero32]
    ELSE [long |-> TRUE, idx |-> DecodeIdx(m.HexData), u |-> DecodeBits(m.HexData)]

\* --- the frames the bridge hands out
PatA == One
PatB == MinusTwo
PatC == QuietNaN

\* frames of the index a read looks for, and frames it skips
RoundWanted  == { RespMsg(idxLocRef, u) : u \in {PatA, PatB, PatC} }
RoundSkipped == { RespMsg(idxLocKp, PatA), ShortMsg(idxLocRef) }
RoundKinds   == RoundWanted \cup RoundSkipped
ParamsWanted  == { RespMsg(idx, PatA) : idx \in {idxLocKp, idxSpdKp, idxSpdKi} }
ParamsSkipped == { RespMsg(idxLocKp, PatB), RespMsg(idxLocRef, PatA), ShortMsg(idxLocKp) }
ParamsKinds   == ParamsWanted \cup ParamsSkipped
\* the frames offered while QueryCurrentAngles listens
QRoundKinds  == { RespMsg(idxLocRef, PatA), RespMsg(idxLocRef, PatB) }
QParamsKinds == ParamsWanted

\* the non-empty poll responses: wanted frames, alone or after a skipped one
Polls(wanted, skipped) ==
    (SeqsUpTo(wanted, MaxMsgs) \ { <<>> })
        \cup { << m >> : m \in skipped }
        \cup { << m, w >> : m \in skipped, w \in wanted }
RoundPolls   == Polls(RoundWanted, RoundSkipped)
ParamsPolls  == Polls(ParamsWanted, ParamsSkipped)
QRoundPolls  == SeqsUpTo(QRoundKinds, MaxMsgs) \ { <<>> }
QParamsPolls == { << RespMsg(idxLocKp, PatA) >>,
                  << RespMsg(idxLocKp, PatA), RespMsg(idxSpdKp, PatA), RespMsg(idxSpdKi, PatA) >> }

\* Decode, tabulated over the frames of the model
Decoded == [m \in RoundKinds \cup ParamsKinds \cup QRoundKinds \cup QParamsKinds |-> Decode(m)]

\* --- listenOneMotorRound: one frame of a poll response.
\* [state, done, ok, val, hist]: the streamState after the frame, whether the
\* function returns at it and with what, and the frames consumed so far.
Continue(st, hist) ==
    [state |-> st, done |-> FALSE, ok |-> FALSE, val |-> Zero64, hist |-> hist,
     rest |-> <<>>]
\* C35 mutant: the pattern whose repetition ended the read is returned
Return_RepeatedPattern(st, hist) ==
    [state |-> st, done |-> TRUE, ok |-> TRUE, val |-> Float64(hist[Len(hist)].u),
     hist |-> hist, rest |-> <<>>]

Return(st, hist) ==
    [state |-> st, done |-> TRUE, ok |-> TRUE, val |-> Float64(st.prevVal), hist |-> hist,
     rest |-> <<>>]

\* C5 mutant: every value needs two repeats
Repeated_AlwaysTwo(st, hist) ==
    IF st.repeats >= 2 THEN Return(st, hist) ELSE Continue(st, hist)

\* C36 mutant: a repeat settles at once only when the previous value is
\* another pattern than the repeated one
Repeated_DistinctPrevious(st, hist) ==
    IF ~st.captured /\ st.havePrev /\ st.prevBits # hist[Len(hist)].u THEN Return(st, hist)
    ELSE IF st.repeats >= 2 THEN Return(st, hist)
    ELSE Continue(st, hist)

\* state.seen[u] is set; state.repeats++ has been done
Repeated(st, hist) ==
    IF ~st.captured /\ st.havePrev THEN Return(st, hist)
    ELSE IF st.repeats >= 2 THEN Return(st, hist)
    ELSE Continue(st, hist)

\* C6 mutant: the previous value is recorded once and kept
FirstSeen_KeepsOldest(st, u) ==
    [st EXCEPT !.seen = @ \cup {u},
               !.prevBits = IF st.havePrev THEN @ ELSE u,
               !.prevVal = IF st.havePrev THEN @ ELSE u,
               !.havePrev = TRUE]

\* state.seen[u] is not set
FirstSeen(st, u) ==
    [st EXCEPT !.seen = @ \cup {u}, !.prevBits = u, !.prevVal = u, !.havePrev = TRUE]

\* C33 mutant: the register index of the frame is not looked at
RoundDecoded_AnyIndex(st, d, hist) ==
    IF ~d.long THEN Continue(st, hist)
    ELSE IF d.u \in st.seen
         THEN Repeated([st EXCEPT !.repeats = @ + 1], Append(hist, [idx |-> d.idx, u |-> d.u]))
         ELSE Continue(FirstSeen(st, d.u), Append(hist, [idx |-> d.idx, u |-> d.u]))

RoundDecoded(st, d, hist) ==
    IF ~d.long \/ d.idx # idxLocRef THEN Continue(st, hist)
    ELSE IF d.u \in st.seen
         THEN Repeated([st EXCEPT !.repeats = @ + 1], Append(hist, [idx |-> d.idx, u |-> d.u]))
         ELSE Continue(FirstSeen(st, d.u), Append(hist, [idx |-> d.idx, u |-> d.u]))

RoundFrame(st, m, hist) == RoundDecoded(st, Decoded[m], hist)

\* for _, m := range lr.Data.Messages { ... }
RECURSIVE RoundMessages(_, _, _)
RECURSIVE RoundRest(_, _)
RoundMessages(st, msgs, hist) ==
    IF msgs = <<>> THEN Continue(st, hist)
    ELSE RoundRest(RoundFrame(st, Head(msgs), hist), Tail(msgs))
RoundRest(r, rest) ==
    IF r.done THEN [r EXCEPT !.rest = IF rest = <<>> THEN <<>> ELSE <<Head(rest)>>]
    ELSE RoundMessages(r.state, rest, r.hist)

\* --- listenMotorParams: one frame of a poll response.
\* pr is [locKp, spdKp, spdKi, seen]; [state, done, hist] as above.
\* The three tests of the loop body; the indices differ, so one at most applies.
\* C18 mutant: every frame of a gain index overwrites the value
KeepFirst_KeepsLast(pr, idx, u) ==
    CASE idx = idxLocKp -> [pr EXCEPT !.locKp = Some(Float64(u)), !.seen = @ \cup {idxLocKp}]
      [] idx = idxSpdKp -> [pr EXCEPT !.spdKp = Some(Float64(u)), !.seen = @ \cup {idxSpdKp}]
      [] idx = idxSpdKi -> [pr EXCEPT !.spdKi = Some(Float64(u)), !.seen = @ \cup {idxSpdKi}]
      [] OTHER -> pr

KeepFirst(pr, idx, u) ==
    CASE idx = idxLocKp /\ idxLocKp \notin pr.seen ->
            [pr EXCEPT !.locKp = Some(Float64(u)), !.seen = @ \cup {idxLocKp}]
      [] idx = idxSpdKp /\ idxSpdKp \notin pr.seen ->
            [pr EXCEPT !.spdKp = Some(Float64(u)), !.seen = @ \cup {idxSpdKp}]
      [] idx = idxSpdKi /\ idxSpdKi \notin pr.seen ->
            [pr EXCEPT !.spdKi = Some(Float64(u)), !.seen = @ \cup {idxSpdKi}]
      [] OTHER -> pr

\* if locKp != nil && spdKp != nil && spdKi != nil { return ... }
AllThree(pr) == pr.locKp.some /\ pr.spdKp.some /\ pr.spdKi.some

ParamsResult(pr, hist) ==
    [state |-> pr, done |-> AllThree(pr), hist |-> hist, rest |-> <<>>]

ParamsDecoded(pr, d, hist) ==
    IF ~d.long THEN [state |-> pr, done |-> FALSE, hist |-> hist, rest |-> <<>>]
    ELSE ParamsResult(KeepFirst(pr, d.idx, d.u),
                      IF d.idx \in {idxLocKp, idxSpdKp, idxSpdKi}
                      THEN Append(hist, [idx |-> d.idx, u |-> d.u]) ELSE hist)

ParamsFrame(pr, m, hist) == ParamsDecoded(pr, Decoded[m], hist)

RECURSIVE ParamsMessages(_, _, _)
RECURSIVE ParamsRest(_, _)
ParamsMessages(pr, msgs, hist) ==
    IF msgs = <<>> THEN [state |-> pr, done |-> FALSE, hist |-> hist, rest |-> <<>>]
    ELSE ParamsRest(ParamsFrame(pr, Head(msgs), hist), Tail(msgs))
ParamsRest(r, rest) ==
    IF r.done THEN [r EXCEPT !.rest = IF rest = <<>> THEN <<>> ELSE <<Head(rest)>>]
    ELSE ParamsMessages(r.state, rest, r.hist)

\* --- the polling loop shared by both reads
\* deadline := time.Now().Add(maxDuration); time is counted from that instant
Begin(fn, motorID, maxDuration) ==
    /\ lpc' = "loop"
    /\ lfn' = fn
    /\ lmotor' = motorID
    /\ now' = 0
    /\ deadline' = maxDuration
    /\ state' = NoState
    /\ lret' = [ok |-> FALSE, val |-> Zero64]
    /\ pres' = NoParams
    /\ stream' = <<>>
    /\ unread' = <<>>

\* if maxDuration <= 0 { maxDuration = 2000 * time.Millisecond }
listenOneMotorRound(motorID, maxDuration) ==
    Begin("round", motorID, IF maxDuration <= 0 THEN RoundBudget ELSE maxDuration)

listenMotorParams(motorID, maxDuration) ==
    Begin("params", motorID, maxDuration)

\* for time.Now().Before(deadline)
InLoop == lpc = "loop" /\ now < deadline

\* C17 mutant: a failed client.Get ends the read
PollFails_GivesUp ==
    /\ InLoop
    /\ lpc' = "returned"
    /\ now' = now + ErrSleep
    /\ UNCHANGED <<lfn, lmotor, deadline, state, lret, pres, stream, unread>>
    /\ UNCHANGED <<probe, wvars, dvars, sent, qvars>>

\* client.Get fails: sleep 60 ms, continue
PollFails ==
    /\ InLoop
    /\ now' = now + ErrSleep
    /\ UNCHANGED <<lpc, lfn, lmotor, deadline, state, lret, pres, stream, unread>>
    /\ UNCHANGED <<probe, wvars, dvars, sent, qvars>>

\* the body does not parse, or holds no message: sleep 80 ms, continue
PollEmpty ==
    /\ InLoop
    /\ now' = now + PollSleep
    /\ UNCHANGED <<lpc, lfn, lmotor, deadline, state, lret, pres, stream, unread>>
    /\ UNCHANGED <<probe, wvars, dvars, sent, qvars>>

\* listenOneMotorRound: a response with messages
PollRound(polls) ==
    /\ InLoop
    /\ lfn = "round"
    /\ \E msgs \in polls :
          LET r == RoundMessages(state, msgs, stream)
          IN  /\ Len(r.hist) <= MaxStream
              /\ state' = r.state
              /\ stream' = r.hist
              /\ unread' = r.rest
              /\ IF r.done
                 THEN /\ lpc' = "returned"
                      /\ lret' = [ok |-> r.ok, val |-> r.val]
                      /\ now' = now
                 ELSE /\ lpc' = "loop"
                      /\ lret' = lret
                      /\ now' = now + PollSleep
              /\ settled' = IF r.done /\ r.ok THEN settled \cup {lmotor} ELSE settled
    /\ UNCHANGED <<lfn, lmotor, deadline, pres>>
    /\ UNCHANGED <<probe, wvars, dvars, sent, qpc, qids, qi, angles, params, qerr>>

\* listenMotorParams: a response with messages
PollParams(polls) ==
    /\ InLoop
    /\ lfn = "params"
    /\ \E msgs \in polls :
          LET r == ParamsMessages(pres, msgs, stream)
          IN  /\ Len(r.hist) <= MaxStream
              /\ pres' = r.state
              /\ stream' = r.hist
              /\ unread' = r.rest
              /\ IF r.done
                 THEN /\ lpc' = "returned"
                      /\ now' = now
                 ELSE /\ lpc' = "loop"
                      /\ now' = now + PollSleep
    /\ UNCHANGED <<lfn, lmotor, deadline, state, lret>>
    /\ UNCHANGED <<probe, wvars, dvars, sent, qvars>>

\* the deadline has passed at the head of the loop:
\* return false, 0  /  return locKp, spdKp, spdKi
\* C9 mutant: the loop is left only at the very instant of the deadline
Expire_OnlyAtDeadline ==
    /\ lpc = "loop"
    /\ now = deadline
    /\ lpc' = "returned"
    /\ lret' = [ok |-> FALSE, val |-> Zero64]
    /\ UNCHANGED <<lfn, lmotor, now, deadline, state, pres, stream, unread>>
    /\ UNCHANGED <<probe, wvars, dvars, sent, qvars>>

Expire ==
    /\ lpc = "loop"
    /\ ~(now < deadline)
    /\ lpc' = "returned"
    /\ lret' = [ok |-> FALSE, val |-> Zero64]
    /\ UNCHANGED <<lfn, lmotor, now, deadline, state, pres, stream, unread>>
    /\ UNCHANGED <<probe, wvars, dvars, sent, qvars>>

\* --- one read called on its own
CallRound ==
    /\ lpc = "idle" /\ qpc = "idle"
    /\ \E d \in {0 - 1, 0, ParamsBudget, RoundBudget} :
          listenOneMotorRound(ctl.MotorIDs[1], d)
    /\ UNCHANGED <<probe, wvars, dvars, sent, qvars>>

CallParams ==
    /\ lpc = "idle" /\ qpc = "idle"
    /\ \E d \in {0, ParamsBudget} : listenMotorParams(ctl.MotorIDs[1], d)
    /\ UNCHANGED <<probe, wvars, dvars, sent, qvars>>

ListenNext ==
    \/ CallRound
    \/ CallParams
    \/ PollFails
    \/ PollEmpty
    \/ PollRound(RoundPolls)
    \/ PollParams(ParamsPolls)
    \/ Expire

\* the reads are studied on the right arm
ListenInit ==
    /\ ctl = NewBlackArmController("can0", << "right", "black", "arm" >>)
    /\ sent = <<>>
    /\ DIdle /\ LIdle /\ QIdle
    /\ probe = NoProbe
    /\ JointSequences = <<>> /\ MIdle /\ EIdle /\ XIdle /\ SIdle

SpecListen == ListenInit /\ [][ListenNext]_vars

\* one iteration of the polling loop, or leaving it
LoopStep ==
    PollFails \/ PollEmpty \/ PollRound(RoundPolls) \/ PollParams(ParamsPolls) \/ Expire

\* Every client.Get returns (the client has a timeout) and the goroutine of the
\* read is scheduled: a read that can take a step of its loop takes one.
FairSpecListen == ListenInit /\ [][ListenNext]_vars /\ WF_vars(LoopStep)

\* ==================================================== QueryCurrentAngles
typeReadSingle == 17   \* 0x11
defaultHostID  == 253  \* 0xFD

\* uint8(x)
Uint8(x) == x % 256

\* (typeReadSingle << 24) | (hostID << 8) | motorID, for 8-bit hostID, motorID
buildReadReqID(hostID, motorID) == typeReadSingle * 16777216 + hostID * 256 + motorID
\* C14 mutant: the response identifier laid out as the request identifier
buildReadRespID_AsRequest(hostID, motorID) ==
    typeReadSingle * 16777216 + hostID * 256 + motorID
buildReadRespID(hostID, motorID) == typeReadSingle * 16777216 + motorID * 256 + hostID

buildReadReqData(index) == << index % 256, (index \div 256) % 256, 0, 0, 0, 0, 0, 0 >>

\* the indices QueryCurrentAngles asks for
indices == << idxLocRef, idxLocKp, idxSpdKp, idxSpdKi >>

\* the frames sendReadForMotor posts for one motor
sendReadForMotor(iface, motorID, idxs) ==
    [i \in 1..Len(idxs) |->
        [Interface |-> iface,
         ID |-> buildReadReqID(defaultHostID, Uint8(motorID)),
         Data |-> buildReadReqData(idxs[i]),
         Extended |-> TRUE]]

\* sendReadForMotor fails on a Post that returns an error and on nothing else:
\* the status of the answer is not looked at.
ReadSendFails(answer) == answer = "neterr"

\* The read requests are posted in order; the bridge answers 200 but for the
\* k-th Post, which it answers with bad.
SubmittedReads(frames, k, bad) ==
    [i \in 1..(IF k > 0 /\ ReadSendFails(bad) THEN k ELSE Len(frames)) |->
        [frame |-> frames[i], answer |-> IF i = k THEN bad ELSE "200"]]

\* the Post that is answered badly: none, the first or the last
QueryFaults(frames) == {0, 1, Len(frames)} \cap (0..Len(frames))

\* the motor lists QueryCurrentAngles is called with
QueryInputs == { <<>>, ctl.MotorIDs }

\* QueryCurrentAngles up to its first listen: the read requests of every motor,
\* then listenMotorParams on the first motor (no motor: return empty maps)
QueryCall ==
    /\ qpc = "idle" /\ lpc = "idle" /\ pc = "idle"
    /\ \E ids \in QueryInputs :
       LET frames == Flatten([i \in 1..Len(ids) |->
                                 sendReadForMotor(ctl.Interface, ids[i], indices)])
       IN  \E k \in QueryFaults(frames), bad \in {"neterr", "500"} :
             /\ k = 0 => bad = "neterr"
             /\ qids' = ids
             /\ sent' = sent \o SubmittedReads(frames, k, bad)
             /\ IF k > 0 /\ ReadSendFails(bad)
                THEN /\ qpc' = "returned"
                     /\ qerr' = Err("QueryCurrentAngles", "post", ids[((k - 1) \div 4) + 1])
                     /\ UNCHANGED lvars
                ELSE IF Len(ids) = 0
                THEN /\ qpc' = "returned"
                     /\ qerr' = Nil
                     /\ UNCHANGED lvars
                ELSE /\ qpc' = "params"
                     /\ qerr' = Nil
                     /\ listenMotorParams(ids[1], ParamsBudget)
    /\ UNCHANGED <<probe, wvars, dvars, qi, angles, params, settled>>

\* params["loc_kp"] = *locKp, ... for the gains listenMotorParams returned
ParamsMap(pr) ==
    [key \in {"loc_kp" : x \in {1} \cap {IF pr.locKp.some THEN 1 ELSE 0}}
            \cup {"spd_kp" : x \in {1} \cap {IF pr.spdKp.some THEN 1 ELSE 0}}
            \cup {"spd_ki" : x \in {1} \cap {IF pr.spdKi.some THEN 1 ELSE 0}} |->
        CASE key = "loc_kp" -> pr.locKp.v
          [] key = "spd_kp" -> pr.spdKp.v
          [] key = "spd_ki" -> pr.spdKi.v]

\* listenMotorParams has returned: fill params, start on the first motor's angle
QAfterParams ==
    /\ qpc = "params" /\ lpc = "returned"
    /\ params' = ParamsMap(pres)
    /\ qi' = 1
    /\ qpc' = "round"
    /\ listenOneMotorRound(qids[1], RoundBudget)
    /\ UNCHANGED <<probe, wvars, dvars, sent, qids, angles, qerr, settled>>

\* the last read is over: its locals are gone
LeaveRead ==
    /\ lpc' = "idle" /\ lfn' = "none" /\ lmotor' = 0 /\ now' = 0 /\ deadline' = 0
    /\ state' = NoState /\ lret' = [ok |-> FALSE, val |-> Zero64]
    /\ pres' = NoParams /\ stream' = <<>> /\ unread' = <<>>

\* C8 mutant: the angle is stored without looking at ok
PutAngle_Unchecked(m, r, as) == (m :> r.val) @@ as

\* if ok { angles[m] = angle }
PutAngle(m, r, as) == IF r.ok THEN (m :> r.val) @@ as ELSE as

\* listenOneMotorRound has returned for motor qids[qi]: record the angle, go
\* on with the next motor or return angles, params, nil
QAfterRound ==
    /\ qpc = "round" /\ lpc = "returned"
    /\ angles' = PutAngle(qids[qi], lret, angles)
    /\ IF qi < Len(qids)
       THEN /\ qi' = qi + 1
            /\ qpc' = "round"
            /\ qerr' = qerr
            /\ listenOneMotorRound(qids[qi + 1], RoundBudget)
       ELSE /\ qi' = qi
            /\ qpc' = "returned"
            /\ qerr' = Nil
            /\ LeaveRead
    /\ UNCHANGED <<probe, wvars, dvars, sent, qids, params, settled>>

QueryNext ==
    \/ QueryCall
    \/ PollFails
    \/ PollEmpty
    \/ PollParams(QParamsPolls)
    \/ PollRound(QRoundPolls)
    \/ Expire
    \/ QAfterParams
    \/ QAfterRound

SpecQuery == ListenInit /\ [][QueryNext]_vars

\* ============================================================ the codec
\* The frame builders and the decoder applied on their own: one computation
\* per behaviour, its inputs and results kept in probe.

\* float32 patterns: zeros, ordinary numbers, NaNs, subnormals, infinity
Patterns ==
    { Zero32, One, MinusTwo, QuietNaN,
      F32(32768, 0),        \* -0.0                 0x80000000
      F32(0, 1),            \* smallest subnormal   0x00000001
      F32(127, 65535),      \* largest subnormal    0x007FFFFF
      F32(32640, 0),        \* +Inf                 0x7F800000
      F32(65535, 65535),    \* a NaN of all ones    0xFFFFFFFF
      F32(4660, 22136) }    \*                      0x12345678

\* the operations that write a float32 register
Writers == {"SetAngle", "SetSpeed", "SetMotorLocKp", "SetMotorSpeedKp",
            "SetMotorSpeedKi", "SetMotorSpeedFiltGain"}

\* the frame a writer posts for a joint of the arm
WriteFrame(op, b, motorID, v) ==
    CASE op = "SetAngle"              -> SetAngle(b, motorID, v).frames[1]
      [] op = "SetSpeed"              -> SetSpeed(b, motorID, v).frames[1]
      [] op = "SetMotorLocKp"         -> SetMotorLocKp(b, motorID, v).frames[1]
      [] op = "SetMotorSpeedKp"       -> SetMotorSpeedKp(b, motorID, v).frames[1]
      [] op = "SetMotorSpeedKi"       -> SetMotorSpeedKi(b, motorID, v).frames[1]
      [] op = "SetMotorSpeedFiltGain" -> SetMotorSpeedFiltGain(b, motorID, v).frames[1]

\* the bridge hands the data bytes of a frame out as hex tokens
Echo(f) == [HexData |-> [i \in 1..Len(f.Data) |-> Token(f.Data[i])]]

\* a writer's payload, read back through the decoder of the feedback loop
ProbeRoundTrip ==
    /\ probe = NoProbe
    /\ \E op \in Writers, i \in 1..Len(ctl.MotorIDs), v \in Patterns :
          LET f == WriteFrame(op, ctl, ctl.MotorIDs[i], v)
          IN  probe' = [fn |-> "roundtrip", op |-> op, v |-> v, frame |-> f,
                        decoded |-> Decode(Echo(f))]
    /\ UNCHANGED <<dvars, sent, lvars, qvars, wvars>>

Bytes == 0..255

\* the two read identifiers of a host and a motor, and the request identifier
\* with the two exchanged
ProbeReadIDs ==
    /\ probe = NoProbe
    /\ \E h \in Bytes, m \in Bytes :
          probe' = [fn |-> "ids", h |-> h, m |-> m,
                    req |-> buildReadReqID(h, m),
                    resp |-> buildReadRespID(h, m),
                    swapped |-> buildReadReqID(m, h)]
    /\ UNCHANGED <<dvars, sent, lvars, qvars, wvars>>

\* the commands that carry no value
NoValueKinds == {"enable", "disable", "zero", "clear"}

NoValueFrame(kind, b, motorID) ==
    CASE kind = "enable"  -> enableSingleMotor(b, motorID)[2]
      [] kind = "disable" -> DisableFrame(b, motorID)
      [] kind = "zero"    -> setSingleMotorZeroFrame(b, motorID)
      [] kind = "clear"   -> CleanErrorFrame(b, motorID)

\* the frames of two value-less commands for one motor
ProbeNoValue ==
    /\ probe = NoProbe
    /\ \E k1 \in NoValueKinds, k2 \in NoValueKinds, i \in 1..Len(ctl.MotorIDs) :
          probe' = [fn |-> "novalue", k1 |-> k1, k2 |-> k2,
                    f1 |-> NoValueFrame(k1, ctl, ctl.MotorIDs[i]),
                    f2 |-> NoValueFrame(k2, ctl, ctl.MotorIDs[i])]
    /\ UNCHANGED <<dvars, sent, lvars, qvars, wvars>>

\* one pass of listenOneMotorRound's loop body over a poll response: the body
\* does not parse or holds no message, or its messages are gone through
RoundPoll(st, resp) ==
    IF ~resp.parsed \/ resp.Messages = <<>> THEN Continue(st, <<>>)
    ELSE RoundMessages(st, resp.Messages, <<>>)

\* the poll responses: unparsable, empty, and those of the read's alphabet
Responses ==
    { [parsed |-> FALSE, Messages |-> <<>>], [parsed |-> TRUE, Messages |-> <<>>] }
        \cup { [parsed |-> TRUE, Messages |-> msgs] : msgs \in RoundPolls }

\* the streamState at the start, after one pattern, and after two
StreamStates ==
    { NoState, FirstSeen(NoState, PatA), FirstSeen(FirstSeen(NoState, PatA), PatB) }

\* one poll response met in one streamState
ProbeRoundPoll ==
    /\ probe = NoProbe
    /\ \E st \in StreamStates, resp \in Responses :
          probe' = [fn |-> "poll", state |-> st, resp |-> resp,
                    after |-> RoundPoll(st, resp)]
    /\ UNCHANGED <<dvars, sent, lvars, qvars, wvars>>

CodecNext ==
    \/ ProbeRoundTrip
    \/ ProbeReadIDs
    \/ ProbeNoValue
    \/ ProbeRoundPoll

SpecCodec == ListenInit /\ [][CodecNext]_vars

\* ========================================================= codec claims
\* the register a writer writes: the first two data bytes of its frame
RegisterOf(op) ==
    CASE op = "SetAngle"              -> 28694   \* 0x7016
      [] op = "SetSpeed"              -> 28708   \* 0x7024
      [] op = "SetMotorLocKp"         -> 28702   \* 0x701E
      [] op = "SetMotorSpeedKp"       -> 28703   \* 0x701F
      [] op = "SetMotorSpeedKi"       -> 28704   \* 0x7020
      [] op = "SetMotorSpeedFiltGain" -> 28705   \* 0x7021

\* C12: the payload a writer builds for a register and a float32 pattern is 8
\* bytes (index low, index high, 0, 0, the pattern little-endian), and the
\* feedback decoder reads the same index and the same 32-bit pattern off it,
\* NaN and subnormal patterns included.
C12_RoundTrip ==
    probe.fn = "roundtrip" =>
        /\ Len(probe.frame.Data) = 8
        /\ probe.frame.Data[1] = RegisterOf(probe.op) % 256
        /\ probe.frame.Data[2] = RegisterOf(probe.op) \div 256
        /\ probe.frame.Data[3] = 0 /\ probe.frame.Data[4] = 0
        /\ probe.decoded = [long |-> TRUE, idx |-> RegisterOf(probe.op), u |-> probe.v]

\* C12 witness: a NaN written as target angle came back bit for bit, under
\* the index the feedback loop listens for.
C12_Witness ==
    /\ probe.fn = "roundtrip" /\ probe.op = "SetAngle" /\ probe.v = QuietNaN
    /\ probe.decoded.u = QuietNaN /\ probe.decoded.idx = idxLocRef

\* C14: for 8-bit h and m, the response identifier is the request identifier
\* of m and h exchanged, and differs from the request identifier when h # m.
C14_Asymmetry ==
    probe.fn = "ids" =>
        /\ probe.h # probe.m => probe.req # probe.resp
        /\ probe.resp = probe.swapped

\* C14 witness: the identifiers of host 0xFD and motor 51.
C14_Witness ==
    /\ probe.fn = "ids" /\ probe.h = defaultHostID /\ probe.m = 51
    /\ probe.req # probe.resp /\ probe.resp = probe.swapped

AllZero(data) == data = <<0, 0, 0, 0, 0, 0, 0, 0>>

\* C15 (as claimed): a value-less frame has 8 zero data bytes, and two
\* different value-less commands differ in their command byte.
C15_CommandByteAlone ==
    probe.fn = "novalue" =>
        /\ AllZero(probe.f1.Data)
        /\ probe.k1 # probe.k2 => CommandByte(probe.f1) # CommandByte(probe.f2)

\* C15 (amended): a value-less frame has 8 data bytes, zero but for the
\* first: all zero for drive-enable and disable, first byte 1 for set-zero
\* and clear-fault.  Two different value-less commands differ in the pair of
\* command byte and first data byte; disable and clear-fault share the
\* command byte 0x04.
C15_CommandAndFirstByte ==
    probe.fn = "novalue" =>
        /\ Len(probe.f1.Data) = 8
        /\ \A i \in 2..8 : probe.f1.Data[i] = 0
        /\ probe.f1.Data[1] = (IF probe.k1 \in {"zero", "clear"} THEN 1 ELSE 0)
        /\ probe.k1 # probe.k2 =>
              << CommandByte(probe.f1), probe.f1.Data[1] >> #
              << CommandByte(probe.f2), probe.f2.Data[1] >>
        /\ ({probe.k1, probe.k2} = {"disable", "clear"}) =>
              CommandByte(probe.f1) = 4 /\ CommandByte(probe.f2) = 4

\* C15 witness: the disable and the clear-fault frame of a motor, alike in
\* their identifier and different in their first data byte.
C15_Witness ==
    /\ probe.fn = "novalue" /\ probe.k1 = "disable" /\ probe.k2 = "clear"
    /\ probe.f1.ID = probe.f2.ID
    /\ probe.f1.Data[1] = 0 /\ probe.f2.Data[1] = 1

\* ================================================= QueryCurrentAngles claims
\* every read request was handed to the bridge: no Post returned an error
AllReadsSent ==
    /\ Len(sent) = 4 * Len(qids)
    /\ \A i \in 1..Len(sent) : ~ReadSendFails(sent[i].answer)

Range(f) == { f[i] : i \in DOMAIN f }

\* C8: when QueryCurrentAngles has returned after sending every read request,
\* it returned a nil error, and its angle map has an entry for exactly the
\* motors whose read settled before its deadline (a motor whose budget expired
\* has none), whatever the number of settled motors.
C8_PartialFeedback ==
    (qpc = "returned" /\ AllReadsSent) =>
        /\ qerr = Nil
        /\ DOMAIN angles = settled
        /\ settled \subseteq Range(qids)

\* C8 witness: a query of all the joints returned with some motors settled and
\* some expired.
C8_Witness ==
    /\ qpc = "returned" /\ AllReadsSent /\ qerr = Nil
    /\ Len(qids) = NumJoints
    /\ settled # {} /\ settled # Range(qids)
    /\ DOMAIN angles = settled

\* a status of the 2xx class
Is2xx(answer) == answer \in {"200", "201"}

\* the Posts of the query all reported success to QueryCurrentAngles
SendsReportedOK == ~(qpc = "returned" /\ qerr # Nil)

\* C16: a frame send reports success exactly when the bridge answered with a
\* 2xx status: in a query, the sends are reported failed exactly when some
\* Post got no answer or an answer of another status.
C16_SuccessIs2xx ==
    qpc # "idle" =>
        (SendsReportedOK <=> \A p \in 1..Len(sent) : Is2xx(sent[p].answer))

\* a step in which client.Get of a read of the query failed
PollFailed ==
    /\ qpc \in {"params", "round"}
    /\ lpc = "loop" /\ now < deadline
    /\ now' = now + ErrSleep

\* a Post of a read request failed: QueryCurrentAngles has returned an error
\* and the failed Post was its last
SendFailureSurfaced ==
    \A p \in 1..Len(sent) : sent[p].answer = "neterr" =>
        /\ qpc = "returned" /\ qerr # Nil
        /\ p = Len(sent)

\* C17 (as claimed): in a query, a failed read-request send and a failed
\* inbox poll alike make the query return an error, and neither is repeated.
C17_FailureSurfaced ==
    /\ []SendFailureSurfaced
    /\ [][PollFailed => (qpc' = "returned" /\ qerr' # Nil)]_vars

\* C17 (amended): a failed read-request send makes the query return an error
\* and is not repeated.  A failed inbox poll is not surfaced: the read sleeps
\* 60 ms and polls again while its deadline has not passed, and a query whose
\* sends all went through returns a nil error.
C17_SendSurfacedPollRepeated ==
    /\ []SendFailureSurfaced
    /\ [][PollFailed => (/\ lpc' = "loop" /\ qpc' = qpc /\ qerr' = Nil
                          /\ sent' = sent /\ stream' = stream
                          /\ deadline' = deadline)]_vars
    /\ []((qpc = "returned" /\ \A p \in 1..Len(sent) : sent[p].answer # "neterr")
             => qerr = Nil)

\* C17 witness: the first poll of an angle read failed and the read is back
\* at the head of its loop, 60 ms later.
C17_Witness ==
    /\ qpc = "round" /\ lpc = "loop"
    /\ now = ErrSleep /\ qerr = Nil

\* the register index a read request asks for
RequestIndex(f) == f.Data[1] + f.Data[2] * 256

\* C19: in a query over several motors, a read request for a gain index goes
\* to the first motor only, and gains are listened for on the first motor only.
C19_OneRepresentative ==
    qpc # "idle" =>
        /\ \A p \in 1..Len(sent) :
              RequestIndex(sent[p].frame) \in {idxLocKp, idxSpdKp, idxSpdKi} =>
                  sent[p].frame.ID % 256 = qids[1]
        /\ lfn = "params" => lmotor = qids[1]

\* ================================================= feedback read claims
Settled == lfn = "round" /\ lpc = "returned" /\ lret.ok

\* C5: when the first two target-angle frames of a read carry the same
\* pattern A (the stream [A, A, B, B]), the read has returned A at the second
\* A, having consumed nothing after it.
C5_CaseA ==
    (lfn = "round" /\ Len(stream) >= 2 /\ stream[1].u = stream[2].u) =>
        /\ Settled
        /\ lret.val = Float64(stream[1].u)
        /\ Len(stream) = 2

\* C5 witness: the read returned A at the second A and left a B frame of the
\* same response unread.
C5_Witness ==
    /\ Settled
    /\ stream = << [idx |-> idxLocRef, u |-> PatA], [idx |-> idxLocRef, u |-> PatA] >>
    /\ unread = << RespMsg(idxLocRef, PatB) >>
    /\ lret.val = Float64(PatA)

\* C6: for the stream [A, B, B] with A # B, the read has not settled after A
\* nor after the first B, and has returned B once the second B is consumed.
C6_CaseB ==
    lfn = "round" =>
        /\ Len(stream) = 1 => ~Settled
        /\ (Len(stream) = 2 /\ stream[1].u # stream[2].u) => ~Settled
        /\ (Len(stream) >= 3 /\ stream[1].u # stream[2].u /\ stream[2].u = stream[3].u) =>
              /\ Settled
              /\ lret.val = Float64(stream[2].u)
              /\ Len(stream) = 3

\* C6 witness: the stream A, B, B was consumed and the read returned B.
C6_Witness ==
    /\ Settled
    /\ stream = << [idx |-> idxLocRef, u |-> PatA], [idx |-> idxLocRef, u |-> PatB],
                   [idx |-> idxLocRef, u |-> PatB] >>
    /\ lret.val = Float64(PatB)

Observed(idx, n) == { k \in 1..n : stream[k].idx = idx }
First(S) == CHOOSE k \in S : \A j \in S : k <= j

\* a gain is reported exactly when a frame of its index was consumed, with the
\* value of the first such frame
FirstObservation(idx, got) ==
    /\ got.some <=> Observed(idx, Len(stream)) # {}
    /\ got.some => got.v = Float64(stream[First(Observed(idx, Len(stream)))].u)

AllObserved(n) ==
    \A idx \in {idxLocKp, idxSpdKp, idxSpdKi} : Observed(idx, n) # {}

\* C18: listenMotorParams reports for each gain index the value of the first
\* frame it consumed with that index, whatever came later, and it has
\* returned at the frame with which every gain index had been seen once,
\* consuming nothing after it.
C18_FirstObservation ==
    lfn = "params" =>
        /\ FirstObservation(idxLocKp, pres.locKp)
        /\ FirstObservation(idxSpdKp, pres.spdKp)
        /\ FirstObservation(idxSpdKi, pres.spdKi)
        /\ AllObserved(Len(stream)) =>
              /\ lpc = "returned"
              /\ ~AllObserved(Len(stream) - 1)

\* C18 witness: two different position-gain frames were consumed, the first
\* is the one reported, and the read returned once all three gains were seen.
C18_Witness ==
    /\ lfn = "params" /\ lpc = "returned" /\ now < deadline
    /\ Len(stream) = 4
    /\ stream[1] = [idx |-> idxLocKp, u |-> PatB]
    /\ stream[2] = [idx |-> idxLocKp, u |-> PatA]
    /\ pres.locKp = Some(Float64(PatB))
    /\ AllThree(pres)

\* C9: every bounded read that has entered its polling loop returns, and a
\* listenOneMotorRound that returns without settling returns (false, 0), after
\* its deadline.
C9_Terminates ==
    /\ (lpc = "loop") ~> (lpc = "returned")
    /\ [](lfn = "round" /\ lpc = "returned" /\ ~lret.ok =>
              lret.val = Zero64 /\ ~(now < deadline))

\* C9 witness: a read of each kind has returned by its deadline, having seen
\* only failed and empty polls / only new patterns.
C9_Witness ==
    /\ lpc = "returned" /\ ~(now < deadline)
    /\ lfn = "round" /\ ~lret.ok /\ Len(stream) = 3

\* ===================================================== the web server
\* src/unnamed/part_000.  A Go string on which the code computes (names, map
\* keys) is a sequence of one-character strings; a string that is only
\* compared (arm_type, arm_model) is a TLA+ string.

\* Longest stored sequence, in way-points.
MaxPoints == 3
\* Longest merged name handed to the name derivation on its own.
MaxName == 4

UpperCase == << "A", "B", "C", "D", "E", "F", "G", "H", "I", "J", "K", "L", "M",
                "N", "O", "P", "Q", "R", "S", "T", "U", "V", "W", "X", "Y", "Z" >>
LowerCase == << "a", "b", "c", "d", "e", "f", "g", "h", "i", "j", "k", "l", "m",
                "n", "o", "p", "q", "r", "s", "t", "u", "v", "w", "x", "y", "z" >>

\* strings.ToLower, strings.Contains, strings.Replace(s, old, new, -1)
ToLowerChar(c) ==
    IF \E i \in 1..26 : UpperCase[i] = c
    THEN LowerCase[CHOOSE i \in 1..26 : UpperCase[i] = c]
    ELSE c

ToLower(s) == [i \in 1..Len(s) |-> ToLowerChar(s[i])]

StringsContains(s, substr) ==
    \E i \in 0..(Len(s) - Len(substr)) : SubSeq(s, i + 1, i + Len(substr)) = substr

RECURSIVE Replace(_, _, _)
Replace(s, old, new) ==
    IF Len(s) < Len(old) THEN s
    ELSE IF SubSeq(s, 1, Len(old)) = old
         THEN new \o Replace(SubSeq(s, Len(old) + 1, Len(s)), old, new)
         ELSE << s[1] >> \o Replace(Tail(s), old, new)

\* the decimal text of a two-digit motor address, as the map keys spell it
Key(n) == << HexChars[(n \div 10) + 1], HexChars[(n % 10) + 1] >>

\* unary minus of a float32: the sign bit changes
Neg(v) == F32((v.hi + 32768) % 65536, v.lo)

Tenth      == F32(15820, 52429)     \* float32(0.1)  = 0x3DCCCCCD
MinusTenth == F32(48588, 52429)     \* float32(-0.1) = 0xBDCCCCCD

\* -------------------------------------------------- mergeSequencesHandler
\* the last stored sequence of that name, 0 for nil
Lookup(name) ==
    LET hits == { i \in 1..Len(JointSequences) : JointSequences[i].Name = name }
    IN  IF hits = {} THEN 0 ELSE CHOOSE i \in hits : \A j \in hits : j <= i

\* the request's value, else the first sequence's, else "old"
armModel(r, leftSeq) ==
    IF r.ArmModel # "" THEN r.ArmModel
    ELSE IF leftSeq.ArmModel # "" THEN leftSeq.ArmModel
    ELSE "old"

isUpMerge(r)   == StringsContains(ToLower(r.MergedName), << "u", "p" >>)
isDownMerge(r) == StringsContains(ToLower(r.MergedName), << "d", "o", "w", "n" >>)

Angle2set62(model) == IF model = "new" THEN Neg(Tenth) ELSE Tenth
Angle2set52_EitherGeneration(model) == MinusTenth
Angle2set52(model) == IF model = "new" THEN Neg(MinusTenth) ELSE MinusTenth

\* the way-point named "initial angles" of each side
leftInitAngle(model) ==
    [ Name   |-> << "i", "n", "i", "t" >>,
      Values |-> [ k \in { Key(n) : n \in 61..67 } |->
                     IF k = Key(62) THEN Angle2set62(model) ELSE Zero32 ] ]

rightInitAngle(model) ==
    [ Name   |-> << "i", "n", "i", "t" >>,
      Values |-> [ k \in { Key(n) : n \in 51..57 } |->
                     IF k = Key(52) THEN Angle2set52(model) ELSE Zero32 ] ]

\* the two copies the handler works on, the generation written into both
leftSeq(r) ==
    LET s == JointSequences[Lookup(r.Sequence1Name)]
    IN  [s EXCEPT !.ArmModel = armModel(r, s)]

rightSeq(r) ==
    [JointSequences[Lookup(r.Sequence2Name)] EXCEPT
        !.ArmModel = armModel(r, JointSequences[Lookup(r.Sequence1Name)])]

\* the ascending pair: each side with its initial way-point in front
UpSequences(r) ==
    << [leftSeq(r)  EXCEPT !.Angles = << leftInitAngle(leftSeq(r).ArmModel) >> \o @],
       [rightSeq(r) EXCEPT !.Angles = << rightInitAngle(leftSeq(r).ArmModel) >> \o @] >>

DownName_TitleCase(mergedName) ==
    Replace(Replace(Replace(mergedName, << "u", "p" >>, << "d", "o", "w", "n" >>),
                    << "U", "p" >>, << "D", "o", "w", "n" >>),
            << "U", "P" >>, << "D", "O", "W", "N" >>)

DownName(mergedName) ==
    Replace(Replace(Replace(mergedName, << "u", "p" >>, << "d", "o", "w", "n" >>),
                    << "U", "p" >>, << "d", "o", "w", "n" >>),
            << "U", "P" >>, << "D", "O", "W", "N" >>)

\* the reversal of the ascending branch: without the last, back to front
DerivedDown_KeepsLast(as) ==
    IF Len(as) > 1 THEN [ j \in 1..Len(as) |-> as[Len(as) + 1 - j] ] ELSE as

DerivedDown(as) ==
    IF Len(as) > 1 THEN [ j \in 1..(Len(as) - 1) |-> as[Len(as) - j] ] ELSE as

\* the reversal of the descending branch
DirectDown_Unguarded(as) ==
    [ j \in 1..(Len(as) - 1) |-> as[Len(as) - j] ]

DirectDown(as) ==
    IF Len(as) > 1 THEN [ j \in 1..(Len(as) - 1) |-> as[Len(as) - j] ] ELSE as

\* the descending pair derived from the ascending pair
DownSequences(up) ==
    << [up[1] EXCEPT !.Name = Replace(@, << "u", "p" >>, << "d", "o", "w", "n" >>),
                     !.Angles = DerivedDown(@)],
       [up[2] EXCEPT !.Name = Replace(@, << "u", "p" >>, << "d", "o", "w", "n" >>),
                     !.Angles = DerivedDown(@)] >>

\* the pair of a merge that is named as descending
DirectSequences(r) ==
    << [leftSeq(r)  EXCEPT !.Angles = DirectDown(@)],
       [rightSeq(r) EXCEPT !.Angles = DirectDown(@)] >>

\* ----------------------------------------------------- saveMergedSequence
FileName(mergedName) ==
    Replace(Replace(Replace(mergedName, << " " >>, << "_" >>),
                    << "/" >>, << "_" >>),
            << "\\" >>, << "_" >>)

\* the file ioutil.WriteFile leaves when it succeeds
saveMergedSequence(mergedName, sequences) ==
    [ mergedName |-> mergedName,
      filePath   |-> FileName(mergedName) \o << ".", "j", "s", "o", "n" >>,
      joint_sequences |-> sequences ]

Response(success, message, up, down) ==
    [Success |-> success, Message |-> message, up |-> up, down |-> down]

\* the branch "up": the ascending pair is saved, then the derived pair
MergeUp(r, upOK, downOK) ==
    IF ~upOK
    THEN /\ written' = <<>>
         /\ response' = Response(FALSE, "save up failed", <<>>, <<>>)
    ELSE IF ~downOK
    THEN /\ written' = << saveMergedSequence(r.MergedName, UpSequences(r)) >>
         /\ response' = Response(TRUE, "up saved, down failed", UpSequences(r), <<>>)
    ELSE /\ written' = << saveMergedSequence(r.MergedName, UpSequences(r)),
                          saveMergedSequence(DownName(r.MergedName),
                                             DownSequences(UpSequences(r))) >>
         /\ response' = Response(TRUE, "up and down saved", UpSequences(r),
                                 DownSequences(UpSequences(r)))

\* the branches "down" and "neither": one pair is saved
MergeOne(r, pair, ok) ==
    IF ~ok
    THEN /\ written' = <<>>
         /\ response' = Response(FALSE, "save failed", <<>>, <<>>)
    ELSE /\ written' = << saveMergedSequence(r.MergedName, pair) >>
         /\ response' = Response(TRUE, "merged", pair, <<>>)

\* what a client may ask for
StoredNames == { << "l", "_", "u", "p" >>, << "r", "_", "u", "p" >>, << "n", "o" >> }

MergedNames ==
    { << "u", "p" >>,
      << "U", "P", "_", "t", "o", "_", "r", "e", "s", "t" >>,
      << "U", "p", "_", "s", "l", "o", "w" >>,
      << "u", "P", "_", "1" >>,
      << "d", "o", "w", "n" >>,
      << "D", "o", "w", "n", " ", "1" >>,
      << "g", "o", "/", "u", "p", "\\", "2" >>,
      << "u", "p", ".", "v", "-", "1" >>,
      << "r", "e", "s", "t" >>,
      << "a", ":", "b" >> }

Requests ==
    [ Sequence1Name : StoredNames, Sequence2Name : StoredNames,
      MergedName : MergedNames, ArmModel : {"", "old", "new"} ]

\* The handler reads the stored sequences and the request only, and changes
\* neither: one request per behaviour shows all it can do.
mergeSequencesHandler ==
    /\ probe = NoProbe /\ req = NoReq
    /\ \E r \in Requests, ok1 \in BOOLEAN, ok2 \in BOOLEAN :
          /\ req' = r
          /\ IF Lookup(r.Sequence1Name) = 0 \/ Lookup(r.Sequence2Name) = 0
             THEN /\ written' = <<>>
                  /\ response' = Response(FALSE, "not found", <<>>, <<>>)
             ELSE IF isUpMerge(r) THEN MergeUp(r, ok1, ok2)
             ELSE IF isDownMerge(r) THEN MergeOne(r, DirectSequences(r), ok1)
             ELSE MergeOne(r, << leftSeq(r), rightSeq(r) >>, ok1)
    /\ UNCHANGED <<dvars, sent, lvars, qvars, probe, JointSequences, evars, xvars, svars>>

\* ------------------------------------------------- the stored sequences
\* way-point i of a recording on a side: two joints of that side
WayPoint(base, i) ==
    [ Name   |-> << "p", HexChars[i + 1] >>,
      Values |-> [ k \in { Key(base + 1), Key(base + 2) } |-> F32(16256, i) ] ]

Recording(name, armType, model, base, n) ==
    [ Name |-> name, ArmType |-> armType, ArmModel |-> model,
      Angles |-> [ i \in 1..n |-> WayPoint(base, i) ] ]

\* a left and a right recording of every length, the left one of either
\* generation or of none
Stores ==
    { << Recording(<< "l", "_", "u", "p" >>, "left", m, 60, nl),
         Recording(<< "r", "_", "u", "p" >>, "right", "", 50, nr) >> :
        m \in {"", "new"}, nl \in 0..MaxPoints, nr \in 0..MaxPoints }

\* ------------------------------------- the transforms applied on their own
\* (a behaviour either answers a merge request or applies one transform)
NameChars == {"u", "U", "p", "P", "_"}

ProbeDownName ==
    /\ probe = NoProbe /\ req = NoReq
    /\ \E name \in SeqsUpTo(NameChars, MaxName) :
          probe' = [fn |-> "downName", name |-> name, downName |-> DownName(name)]
    /\ UNCHANGED <<dvars, sent, lvars, qvars, wvars>>

\* way-point lists of every length up to an ascending list's
ProbeReversal ==
    /\ probe = NoProbe /\ req = NoReq
    /\ \E as \in SeqsUpTo({ leftInitAngle("old"), WayPoint(60, 1), WayPoint(50, 2) },
                          MaxPoints + 1) :
          probe' = [fn |-> "reversal", angles |-> as,
                    direct |-> DirectDown(as), derived |-> DerivedDown(as)]
    /\ UNCHANGED <<dvars, sent, lvars, qvars, wvars>>

MergeNext ==
    \/ mergeSequencesHandler
    \/ ProbeDownName
    \/ ProbeReversal

MergeInit ==
    /\ ctl = NewBlackArmController("can0", << "right", "black", "arm" >>)
    /\ sent = <<>>
    /\ DIdle /\ LIdle /\ QIdle
    /\ probe = NoProbe
    /\ JointSequences \in Stores /\ MIdle /\ EIdle /\ XIdle /\ SIdle

SpecMerge == MergeInit /\ [][MergeNext]_vars

\* ------------------------------------------------------------ strconv.Atoi
IsDigit(c) == \E d \in 1..10 : HexChars[d] = c
DigitValue(c) == (CHOOSE d \in 1..10 : HexChars[d] = c) - 1

RECURSIVE DecimalValue(_, _)
DecimalValue(s, acc) ==
    IF s = <<>> THEN acc ELSE DecimalValue(Tail(s), acc * 10 + DigitValue(s[1]))

\* an optional sign, then one decimal digit or more; anything else is an error
Atoi(s) ==
    LET signed == s # <<>> /\ s[1] \in {"+", "-"}
        digits == IF signed THEN Tail(s) ELSE s
    IN  IF digits = <<>> \/ \E i \in 1..Len(digits) : ~IsDigit(digits[i])
        THEN [ok |-> FALSE, n |-> 0]
        ELSE [ok |-> TRUE,
              n  |-> IF signed /\ s[1] = "-" THEN 0 - DecimalValue(digits, 0)
                     ELSE DecimalValue(digits, 0)]

\* ========================================================= merge claims
\* the request found both sequences and took the branch "up"
Found == req # NoReq /\ Lookup(req.Sequence1Name) # 0 /\ Lookup(req.Sequence2Name) # 0
UpMerged == Found /\ isUpMerge(req) /\ Len(written) >= 1

\* the way-point list the request named for a side (1: first, 2: second)
SideInput(side) ==
    IF side = 1 THEN JointSequences[Lookup(req.Sequence1Name)].Angles
    ELSE JointSequences[Lookup(req.Sequence2Name)].Angles

SavedAngles(file, side) == written[file].joint_sequences[side].Angles

\* [p(n-1), ..., p1, init] for the input [p1, ..., pn] and the saved init
Mirrored(input, init) ==
    [ j \in 1..Len(input) |-> IF j = Len(input) THEN init ELSE input[Len(input) - j] ]

\* C21: for an ascending merge whose side input is [p1, ..., pn], n >= 1, the
\* ascending sequence saved for that side is [init, p1, ..., pn] and the
\* descending sequence derived for that side is [p(n-1), ..., p1, init].
C21_MirrorDerivation ==
    UpMerged =>
        \A side \in {1, 2} :
            Len(SideInput(side)) >= 1 =>
                /\ Len(SavedAngles(1, side)) = Len(SideInput(side)) + 1
                /\ Tail(SavedAngles(1, side)) = SideInput(side)
                /\ Len(written) = 2 =>
                      SavedAngles(2, side) =
                          Mirrored(SideInput(side), SavedAngles(1, side)[1])

\* an ascending merge of a left recording of three way-points, both files saved
C21_Witness ==
    /\ UpMerged /\ Len(written) = 2
    /\ Len(SideInput(1)) = 3
    /\ SavedAngles(2, 1) = << SideInput(1)[2], SideInput(1)[1], SavedAngles(1, 1)[1] >>

\* the request found both sequences, took the branch "down" and saved its pair
DownMerged == Found /\ ~isUpMerge(req) /\ isDownMerge(req) /\ Len(written) = 1

\* the input without its last way-point, back to front
WithoutLastReversed(input) ==
    [ j \in 1..(Len(input) - 1) |-> input[Len(input) - j] ]

\* C22: in a merge named as descending, the output of each side is the input
\* without its final way-point, in reverse order (length n-1 for n >= 1), for
\* every length of the input.
C22_DirectDescending ==
    DownMerged =>
        \A side \in {1, 2} : SavedAngles(1, side) = WithoutLastReversed(SideInput(side))

\* C23: the reversal of the descending branch and the reversal of the derived
\* descending pair are the same function: applied to the same way-point list,
\* of any length, they produce the same list.
C23_SameReversal ==
    probe.fn = "reversal" => probe.direct = probe.derived

\* a list of three different way-points, truly reversed by both
C23_Witness ==
    /\ probe.fn = "reversal"
    /\ probe.angles = << leftInitAngle("old"), WayPoint(60, 1), WayPoint(50, 2) >>
    /\ probe.direct = << WayPoint(60, 1), leftInitAngle("old") >>
    /\ probe.derived = probe.direct

\* one pass over a name, each "up" and "Up" read as "down", each "UP" as "DOWN",
\* every other character kept
RECURSIVE CaseByCase(_)
CaseByCase(s) ==
    IF Len(s) < 2 THEN s
    ELSE IF SubSeq(s, 1, 2) \in { << "u", "p" >>, << "U", "p" >> }
         THEN << "d", "o", "w", "n" >> \o CaseByCase(SubSeq(s, 3, Len(s)))
    ELSE IF SubSeq(s, 1, 2) = << "U", "P" >>
         THEN << "D", "O", "W", "N" >> \o CaseByCase(SubSeq(s, 3, Len(s)))
    ELSE << s[1] >> \o CaseByCase(Tail(s))

\* C24: the derived name is the merged name with "up" replaced by "down", "Up"
\* by "down" and "UP" by "DOWN"; "UP_to_rest" gives "DOWN_to_rest", "Up_slow"
\* gives "down_slow"; the token in another casing ("uP") is not replaced.
C24_NameSubstitution ==
    /\ probe.fn = "downName" =>
          /\ probe.downName = CaseByCase(probe.name)
          /\ probe.name = << "u", "P" >> => probe.downName = << "u", "P" >>
    /\ UpMerged /\ Len(written) = 2 =>
          /\ written[2].mergedName = CaseByCase(req.MergedName)
          /\ req.MergedName = << "U", "p", "_", "s", "l", "o", "w" >> =>
                written[2].mergedName = << "d", "o", "w", "n", "_", "s", "l", "o", "w" >>
          /\ req.MergedName = << "u", "P", "_", "1" >> =>
                written[2].mergedName = << "u", "P", "_", "1" >>

\* the derived pair of the merge "UP_to_rest" is saved as "DOWN_to_rest"
C24_Witness ==
    /\ UpMerged /\ Len(written) = 2
    /\ req.MergedName = << "U", "P", "_", "t", "o", "_", "r", "e", "s", "t" >>
    /\ written[2].mergedName = << "D", "O", "W", "N", "_", "t", "o", "_", "r", "e", "s", "t" >>

\* sign bit and magnitude of a float32
Sign(v) == v.hi \div 32768
Magnitude(v) == F32(v.hi % 32768, v.lo)

\* the way-point in front of a side of the saved ascending pair, and the
\* generation saved with the pair
InitOf(side) == SavedAngles(1, side)[1]
Generation == written[1].joint_sequences[1].ArmModel

\* all joints base+1 .. base+7 are present, all at 0 but joint base+2
OnlyJointTwo(init, base) ==
    /\ DOMAIN init.Values = { Key(n) : n \in (base + 1)..(base + 7) }
    /\ \A n \in (base + 1)..(base + 7) :
          n # base + 2 => init.Values[Key(n)] = Zero32
    /\ Magnitude(init.Values[Key(base + 2)]) = Tenth

\* C25: in an ascending merge the initial way-point of each side has every
\* joint at 0 except joint 62 (left) or 52 (right), which carries a small
\* offset; its sign for generation "new" is the opposite of its sign for
\* "old", and the left and right offsets have opposite signs.
C25_InitialOffset ==
    UpMerged =>
        /\ OnlyJointTwo(InitOf(1), 60)
        /\ OnlyJointTwo(InitOf(2), 50)
        /\ Generation \in {"old", "new"}
        /\ Sign(InitOf(1).Values[Key(62)]) = (IF Generation = "new" THEN 1 ELSE 0)
        /\ Sign(InitOf(2).Values[Key(52)]) = (IF Generation = "new" THEN 0 ELSE 1)
        /\ Sign(InitOf(1).Values[Key(62)]) # Sign(InitOf(2).Values[Key(52)])

\* an ascending merge of generation "new": -0.1 on joint 62, +0.1 on joint 52
C25_Witness ==
    /\ UpMerged /\ Generation = "new"
    /\ InitOf(1).Values[Key(62)] = MinusTenth
    /\ InitOf(2).Values[Key(52)] = Tenth

Alphanumeric ==
    { UpperCase[i] : i \in 1..26 } \cup { LowerCase[i] : i \in 1..26 }
        \cup { HexChars[i] : i \in 1..10 }

\* a name with every character that is no letter and no digit replaced by "_"
FileSafe(name) ==
    [ i \in 1..Len(name) |-> IF name[i] \in Alphanumeric THEN name[i] ELSE "_" ]

\* C26: every merged artifact is stored under the file-safe form of its name:
\* each non-alphanumeric character replaced by an underscore.
C26_FileSafeName ==
    \A f \in 1..Len(written) :
        written[f].filePath =
            FileSafe(written[f].mergedName) \o << ".", "j", "s", "o", "n" >>

\* the motor addresses of a side tag
SideRange(armType) ==
    IF armType = "left" THEN 61..67
    ELSE IF armType = "right" THEN 51..57
    ELSE {}

\* every motor key of every way-point lies in the range of the sequence's tag
Consistent(seq) ==
    \A i \in 1..Len(seq.Angles) :
        \A k \in DOMAIN seq.Angles[i].Values :
            Atoi(k).ok /\ Atoi(k).n \in SideRange(seq.ArmType)

StoredConsistent == \A i \in 1..Len(JointSequences) : Consistent(JointSequences[i])

\* C28: when the stored sequences are consistent with their side tags, so is
\* every sequence that a merge writes, in every branch and for either order
\* of the two names.
C28_SideTagPreserved ==
    StoredConsistent =>
        \A f \in 1..Len(written) :
            \A side \in {1, 2} : Consistent(written[f].joint_sequences[side])

\* the two sequences the request names exist, one tagged left and one right
BothSidesGiven ==
    /\ Found
    /\ { JointSequences[Lookup(req.Sequence1Name)].ArmType,
         JointSequences[Lookup(req.Sequence2Name)].ArmType } = {"left", "right"}

\* C27: a merge whose inputs do not provide both a left and a right sequence
\* fails before any side effect: no file is written and no frame is sent.
C27_BothSidesRequired ==
    req # NoReq /\ ~BothSidesGiven =>
        /\ ~response.Success
        /\ written = <<>>
        /\ sent = <<>>

\* ================================================= playing a sequence
\* executeSequenceAsync and executeSequenceDirect (src/unnamed/part_000): one
\* playback on one manipulator.  A step is one iteration of the loop over a
\* way-point's Values map, whose order Go leaves open, or the end of a
\* way-point.

\* the two functions, with the time each sleeps after a way-point (ms):
\* one second, and the 1 ms every caller of executeSequenceDirect passes
Players ==
    { [name |-> "executeSequenceAsync",  delay |-> 1000],
      [name |-> "executeSequenceDirect", delay |-> 1] }

Event(ev, i, key, err, ms) == [ev |-> ev, wp |-> i, key |-> key, err |-> err, ms |-> ms]

\* the function is called: the outer loop reaches its first way-point, if any
Play ==
    /\ epc = "idle"
    /\ \E p \in Players : efn' = p
    /\ IF sequence.Angles = <<>>
       THEN epc' = "done" /\ wp' = 0 /\ pending' = {}
       ELSE epc' = "keys" /\ wp' = 1 /\ pending' = DOMAIN sequence.Angles[1].Values
    /\ UNCHANGED <<dvars, sent, lvars, qvars, probe, mvars, sequence, trace, xvars, svars>>

\* the keys left to the range loop after the iteration for key k
Remaining_AbortOnError(keys, k, err) == IF err # "nil" THEN {} ELSE keys \ {k}

Remaining(keys, k, err) == keys \ {k}

\* strconv.Atoi fails: the key is logged and the loop continues
SkipKey(k) ==
    /\ ~Atoi(k).ok
    /\ trace' = Append(trace, Event("skip", wp, k, "atoi", 0))
    /\ pending' = Remaining(pending, k, "nil")
    /\ UNCHANGED sent

\* SetAngle refuses the address: nothing is posted, the error is logged
RefuseKey(k) ==
    /\ Atoi(k).ok /\ SetAngle(ctl, Atoi(k).n, sequence.Angles[wp].Values[k]).err # Nil
    /\ trace' = Append(trace, Event("write", wp, k, "invalid", 0))
    /\ pending' = Remaining(pending, k, "invalid")
    /\ UNCHANGED sent

\* SetAngle posts its frame; whatever the bridge answers, the loop goes on
PostKey(k, answer) ==
    /\ Atoi(k).ok /\ SetAngle(ctl, Atoi(k).n, sequence.Angles[wp].Values[k]).err = Nil
    /\ sent' = Append(sent,
                 [frame  |-> SetAngle(ctl, Atoi(k).n, sequence.Angles[wp].Values[k]).frames[1],
                  answer |-> answer])
    /\ trace' = Append(trace, Event("write", wp, k, sendCommand(answer), 0))
    /\ pending' = Remaining(pending, k, sendCommand(answer))

\* one iteration of the loop over angleSet.Values
RangeValues ==
    /\ epc = "keys"
    /\ \E k \in pending :
          \/ SkipKey(k)
          \/ RefuseKey(k)
          \/ \E answer \in Answers : PostKey(k, answer)
    /\ UNCHANGED <<dvars, lvars, qvars, probe, mvars, efn, epc, sequence, wp, xvars, svars>>

\* whether the function sleeps after a way-point
Sleeps_Never(p) == FALSE

Sleeps(p) == p.name = "executeSequenceAsync" \/ p.delay > 0

\* the way-point the outer loop goes to after way-point i
NextWayPoint(i) == i + 1

\* the Values map is exhausted: the sleep, then the next way-point or the end
EndWayPoint ==
    /\ epc = "keys" /\ pending = {}
    /\ trace' = IF Sleeps(efn) THEN Append(trace, Event("sleep", wp, <<>>, "nil", efn.delay))
                ELSE trace
    /\ IF wp < Len(sequence.Angles)
       THEN /\ wp' = NextWayPoint(wp)
            /\ pending' = DOMAIN sequence.Angles[NextWayPoint(wp)].Values
            /\ epc' = "keys"
       ELSE /\ epc' = "done"
            /\ UNCHANGED <<wp, pending>>
    /\ UNCHANGED <<dvars, sent, lvars, qvars, probe, mvars, efn, sequence, xvars, svars>>

PlayNext ==
    \/ Play
    \/ RangeValues
    \/ EndWayPoint

\* the three kinds of way-point played: two joints of the arm; a key that is
\* no number; an address of the other arm
PlayedValues(i) ==
    CASE i % 3 = 1 -> [ k \in { Key(51), Key(52) } |-> F32(16256, i) ]
      [] i % 3 = 2 -> [ k \in { << "x" >>, Key(52) } |-> F32(16256, i) ]
      [] i % 3 = 0 -> [ k \in { Key(61), Key(52) } |-> F32(16256, i) ]

PlayedSequences ==
    { [ Name |-> << "r", "_", "u", "p" >>, ArmType |-> "right", ArmModel |-> "old",
        Angles |-> [ i \in 1..n |->
                       [ Name |-> << "p", HexChars[i + 1] >>, Values |-> PlayedValues(i) ] ] ] :
        n \in 0..MaxPoints }

\* the playback is studied on the right arm
PlayInit ==
    /\ ctl = NewBlackArmController("can0", << "right", "black", "arm" >>)
    /\ sent = <<>>
    /\ DIdle /\ LIdle /\ QIdle
    /\ probe = NoProbe
    /\ JointSequences = <<>> /\ MIdle /\ XIdle /\ SIdle
    /\ efn = NoPlayer /\ epc = "idle" /\ wp = 0 /\ pending = {} /\ trace = <<>>
    /\ sequence \in PlayedSequences

SpecPlay == PlayInit /\ [][PlayNext]_vars

\* Every Post returns (the client has a timeout of 50 s) and the goroutine of
\* the playback is scheduled: a playback that can take a step takes one.
FairSpecPlay == PlayInit /\ [][PlayNext]_vars /\ WF_vars(RangeValues \/ EndWayPoint)

\* ====================================================== playback claims
Writes == { a \in 1..Len(trace) : trace[a].ev = "write" }
SleepsAfter(i) == { a \in 1..Len(trace) : trace[a].ev = "sleep" /\ trace[a].wp = i }

\* C29: a playback visits the way-points in list order, each once: every
\* write attempt of a way-point comes before every write attempt of a later
\* one, with a sleep between the attempts of different way-points.
C29_ListOrder ==
    /\ \A a \in 1..Len(trace) : \A b \in 1..Len(trace) :
          a < b => trace[a].wp <= trace[b].wp
    /\ \A a \in Writes : \A b \in Writes :
          a < b /\ trace[a].wp < trace[b].wp =>
              \E c \in (a + 1)..(b - 1) : trace[c].ev = "sleep"
    /\ \A a \in Writes : \A b \in Writes :
          a < b => ~(trace[a].wp = trace[b].wp /\ trace[a].key = trace[b].key)
    /\ \A i \in 1..Len(sequence.Angles) : Cardinality(SleepsAfter(i)) <= 1
    /\ epc = "done" =>
          \A i \in 1..Len(sequence.Angles) : Cardinality(SleepsAfter(i)) = 1

\* a finished playback of three way-points with attempts in each of them
C29_Witness ==
    /\ epc = "done" /\ Len(sequence.Angles) = 3
    /\ \A i \in 1..3 : \E a \in Writes : trace[a].wp = i

\* every key that is a number has its write attempt, in every way-point
AllAttempted ==
    \A i \in 1..Len(sequence.Angles) :
        \A k \in DOMAIN sequence.Angles[i].Values :
            Atoi(k).ok => \E a \in Writes : trace[a].wp = i /\ trace[a].key = k

\* C30: a failed write (a key that is no number, an address outside the
\* manipulator, a transport failure) stops neither the other motors of its
\* way-point nor the later way-points: a started playback always reaches its
\* end and has then attempted a write for every well-formed key of every
\* way-point.
C30_BestEffort ==
    /\ [](epc = "done" => AllAttempted)
    /\ (epc = "keys") ~> (epc = "done")

\* a finished playback in which a key was no number, an address was refused
\* and both Posts of the first way-point failed
C30_Witness ==
    /\ epc = "done" /\ Len(sequence.Angles) = 3 /\ AllAttempted
    /\ \A a \in Writes : trace[a].wp = 1 => trace[a].err \in {"post", "status"}
    /\ \E a \in 1..Len(trace) : trace[a].ev = "skip"
    /\ \E a \in Writes : trace[a].err = "invalid"
    /\ \E a \in Writes : trace[a].wp = 3 /\ trace[a].err = "nil"

\* ============================================= feedback claims, continued
\* a message with 8 tokens or more whose first two spell the target-angle index
TargetAngleFrame(m) ==
    /\ Len(m.HexData) >= 8
    /\ m.HexData[1] = Token(idxLocRef % 256)
    /\ m.HexData[2] = Token(idxLocRef \div 256)

\* C33: the convergence state changes only when a polled frame has at least 8
\* payload bytes and carries the target-angle index; an empty or unparsable
\* response, a shorter frame and a frame of another index leave it as it was
\* and do not end the read.
C33_StateChange ==
    probe.fn = "poll" =>
        /\ probe.after.state # probe.state =>
              \E i \in 1..Len(probe.resp.Messages) : TargetAngleFrame(probe.resp.Messages[i])
        /\ (\A i \in 1..Len(probe.resp.Messages) : ~TargetAngleFrame(probe.resp.Messages[i])) =>
              probe.after.state = probe.state /\ ~probe.after.done

\* a short frame, then a target-angle frame with a new pattern: only the
\* second changes the state
C33_Witness ==
    /\ probe.fn = "poll"
    /\ probe.state = FirstSeen(NoState, PatA)
    /\ probe.resp.Messages = << ShortMsg(idxLocRef), RespMsg(idxLocRef, PatB) >>
    /\ probe.after.state = FirstSeen(probe.state, PatB)

\* ========================================== dispatcher claims, continued
\* C34: in SetAngles no per-joint task blocks forever: the channel has a slot
\* for every spawned task, so a task holding its result can always deliver it,
\* also after SetAngles has returned on the first error and receives no more.
C34_NeverBlocked ==
    /\ Len(errChan) <= ChanCap(ctl)
    /\ \A i \in 1..NumJoints : task[i].st = "sent" => Len(errChan) < ChanCap(ctl)

\* SetAngles has returned the first error and receives no more; a task still
\* holds its result and has a free slot to put it in
C34_Witness ==
    /\ IsSetAngles /\ pc = "returned" /\ ret # Nil /\ ret.kind # "arity"
    /\ \E i \in 1..NumJoints : task[i].st = "sent"
    /\ Len(errChan) < ChanCap(ctl)

\* =========================================== listening claims, continued
\* the position in the consumed stream of the pattern first seen last
FirstSeenAt(k) == \A j \in 1..(k - 1) : stream[j].u # stream[k].u
LastFirstSeen ==
    CHOOSE k \in 1..Len(stream) :
        FirstSeenAt(k) /\ \A m \in (k + 1)..Len(stream) : ~FirstSeenAt(m)

\* C35: a settled target-angle read returns the value of the pattern that was
\* first seen last in the read, a pattern of the consumed stream; for the
\* stream [A, B, A] that is B, not the A whose repetition ended the read.
C35_LastFirstSeen ==
    Settled =>
        /\ stream # <<>>
        /\ lret.val = Float64(stream[LastFirstSeen].u)
        /\ \E k \in 1..Len(stream) : lret.val = Float64(stream[k].u)
        /\ (Len(stream) = 3 /\ stream[1].u = PatA /\ stream[2].u = PatB
                /\ stream[3].u = PatA) => lret.val = Float64(PatB)

\* C35 witness: the stream A, B, A was consumed; the read settled at the third
\* frame and returned B.
C35_Witness ==
    /\ Settled
    /\ stream = << [idx |-> idxLocRef, u |-> PatA], [idx |-> idxLocRef, u |-> PatB],
                   [idx |-> idxLocRef, u |-> PatA] >>
    /\ lret.val = Float64(PatB)
    /\ lret.val # Float64(stream[3].u)

\* the frame at position k of the consumed stream repeats an earlier pattern
RepeatAt(k) == ~FirstSeenAt(k)
AllFirstSeen == \A k \in 1..Len(stream) : FirstSeenAt(k)

\* C36: a target-angle read settles exactly when a pattern occurs a second
\* time: the first frame that repeats a pattern ends the read as settled and
\* is the last frame consumed; a read whose frames are all new patterns is
\* not settled, and it ends, at or after its deadline, without a value.
C36_SettlesIffRepeat ==
    /\ [](lfn = "round" =>
            /\ Settled <=> ~AllFirstSeen
            /\ \A k \in 1..Len(stream) : RepeatAt(k) => k = Len(stream) /\ Settled
            /\ (lpc = "returned" /\ AllFirstSeen) => ~lret.ok /\ ~(now < deadline))
    /\ (lfn = "round" /\ lpc = "loop" /\ AllFirstSeen)
            ~> (lpc = "returned" /\ (Settled \/ ~(now < deadline)))

\* C36 witness: three frames of three different patterns were consumed and the
\* read ended at its deadline without a value.
C36_Witness ==
    /\ lfn = "round" /\ lpc = "returned" /\ ~lret.ok
    /\ Len(stream) = 3 /\ AllFirstSeen
    /\ ~(now < deadline)

\* ============================================== merge claims, continued
\* C37: when an ascending merge has saved both artifacts, the derived
\* descending artifact has another name and another file than the ascending
\* one, so the second save does not overwrite the first.
C37_DerivedNameDiffers ==
    (UpMerged /\ Len(written) = 2) =>
        /\ written[2].mergedName # written[1].mergedName
        /\ written[2].filePath # written[1].filePath

\* ================================ executing on one or on both manipulators
\* executeSequenceHandler, executeMergedSequenceHandler and the command-line
\* executeSequenceFromFile.  The frames posted are kept in sent, in the order
\* of their Posts.  The sleeps between the steps change no state and are left
\* out.
MaxFaults == 1

\* the server's manipulators: for interfaceName, armConfig := range config.Arms
controllers ==
    [ can0 |-> NewBlackArmController("can0", << "left", "black", "arm" >>),
      can1 |-> NewBlackArmController("can1", << "right", "black", "arm" >>) ]

determineArmType(motorIDs) ==
    IF Len(motorIDs) = 0 THEN "unknown"
    ELSE IF \A i \in 1..Len(motorIDs) : motorIDs[i] >= 51 /\ motorIDs[i] <= 57 THEN "right"
    ELSE IF \A i \in 1..Len(motorIDs) : motorIDs[i] >= 61 /\ motorIDs[i] <= 67 THEN "left"
    ELSE "unknown"

\* the controller of a side: the one whose first motor is in the side's range
\* (the request) or the one made on the interface of the side's device (the
\* command line)
Controller(side) ==
    CHOOSE c \in { controllers[i] : i \in DOMAIN controllers } :
        /\ Len(c.MotorIDs) > 0
        /\ IF side = "left" THEN c.MotorIDs[1] >= 61 /\ c.MotorIDs[1] <= 67
           ELSE c.MotorIDs[1] >= 51 /\ c.MotorIDs[1] <= 57

\* the last sequence of a file that carries the side's tag, 0 when none does
SideSeq(seqs, side) ==
    IF \E i \in 1..Len(seqs) : seqs[i].ArmType = side
    THEN CHOOSE i \in 1..Len(seqs) :
            /\ seqs[i].ArmType = side
            /\ \A j \in (i + 1)..Len(seqs) : seqs[j].ArmType # side
    ELSE 0

\* the first stored sequence of that name and side, 0 when there is none
FindSequence(name, armType) ==
    IF \E i \in 1..Len(JointSequences) :
            JointSequences[i].Name = name /\ JointSequences[i].ArmType = armType
    THEN CHOOSE i \in 1..Len(JointSequences) :
            /\ JointSequences[i].Name = name /\ JointSequences[i].ArmType = armType
            /\ \A j \in 1..(i - 1) :
                  ~(JointSequences[j].Name = name /\ JointSequences[j].ArmType = armType)
    ELSE 0

\* the call of executeSequenceAsync or executeSequenceDirect: the outer loop
\* reaches the first way-point, if any
BeginArm(seq) ==
    IF seq.Angles = <<>>
    THEN [pc |-> "done", wp |-> 0, pending |-> {}, seq |-> seq, current |-> << >>]
    ELSE [pc |-> "keys", wp |-> 1, pending |-> DOMAIN seq.Angles[1].Values, seq |-> seq,
          current |-> << >>]

\* ws.currentAngles[interfaceName][motorID] = angle
updateCurrentAngle(cur, k, v) ==
    [x \in DOMAIN cur \cup {k} |-> IF x = k THEN v ELSE cur[x]]

\* what the bridge answers to the next Post
Bridge == IF faults < MaxFaults THEN {"200", "500"} ELSE {"200"}

ControlResponse(status, success, message) ==
    [status |-> status, Success |-> success, Message |-> message]

\* --- the request for one stored sequence on one interface
ExecInterfaces == {"can0", "can1", "can9"}
WaveName == << "w", "a", "v", "e" >>
ExecNames == { WaveName, << "n", "o" >> }

executeSequenceHandler ==
    /\ xfn = "none"
    /\ \E iface \in ExecInterfaces, name \in ExecNames :
          /\ xin' = [NoFile EXCEPT !.Interface = iface, !.SequenceName = name]
          /\ IF iface \notin DOMAIN controllers
             THEN /\ xans' = ControlResponse(200, FALSE, "no interface")
                  /\ xpc' = "answered"
                  /\ arm' = arm
             ELSE LET side == determineArmType(controllers[iface].MotorIDs)
                      i == FindSequence(name, side)
                  IN  IF i = 0
                      THEN /\ xans' = ControlResponse(200, FALSE, "no sequence")
                           /\ xpc' = "answered"
                           /\ arm' = arm
                      ELSE /\ arm' = [arm EXCEPT ![side] = BeginArm(JointSequences[i])]
                           /\ xpc' = "started"
                           /\ xans' = xans
    /\ xfn' = "executeSequenceHandler"
    /\ UNCHANGED <<dvars, sent, lvars, qvars, probe, mvars, evars, xstep, faults, svars>>

\* --- the request for a paired file
\* the files offered: both sides in either order, one side only, one side twice
PairedContents ==
    { JointSequences,
      << JointSequences[2], JointSequences[1] >>,
      << JointSequences[1] >>,
      << JointSequences[1], JointSequences[1] >> }

FileNames ==
    { << "u", "p", ".", "j", "s", "o", "n" >>,
      << "S", "K", "S", "_", "U", "P", ".", "j", "s", "o", "n" >>,
      << "d", "o", "w", "n", ".", "j", "s", "o", "n" >>,
      << "r", "e", "s", "t", ".", "j", "s", "o", "n" >> }

executeMergedSequenceHandler ==
    /\ xfn = "none"
    /\ \E name \in { << "u", "p", ".", "j", "s", "o", "n" >> }, there \in BOOLEAN,
          content \in PairedContents :
          /\ there \/ content = JointSequences
          /\ xin' = [NoFile EXCEPT !.FileName = name, !.exists = there,
                                   !.JointSequences = content]
          /\ IF ~there
             THEN /\ xans' = ControlResponse(404, FALSE, "read failed")
                  /\ xpc' = "answered"
                  /\ arm' = arm
             ELSE IF SideSeq(content, "left") = 0 \/ SideSeq(content, "right") = 0
             THEN /\ xans' = ControlResponse(400, FALSE, "side missing")
                  /\ xpc' = "answered"
                  /\ arm' = arm
             ELSE /\ arm' = [side \in {"left", "right"} |->
                                BeginArm(content[SideSeq(content, side)])]
                  /\ xpc' = "started"
                  /\ xans' = xans
    /\ xfn' = "executeMergedSequenceHandler"
    /\ UNCHANGED <<dvars, sent, lvars, qvars, probe, mvars, evars, xstep, faults, svars>>

\* what a handler that has started its playback answers
Started_ReportsWrites ==
    ControlResponse(200, \A i \in 1..Len(sent) : sent[i].answer = "200", "started")

Started == ControlResponse(200, TRUE, "started")

\* json.NewEncoder(w).Encode(response), after the go statements
Encode ==
    /\ xpc = "started"
    /\ xans' = Started
    /\ xpc' = "answered"
    /\ UNCHANGED <<dvars, sent, lvars, qvars, probe, mvars, evars, xfn, xstep, xin, arm,
                   faults, svars>>

\* --- the playback of one side: one iteration of the loop over the Values of
\* the way-point.  A key that is no number is skipped, an address outside the
\* arm is refused before any Post, and a failed Post is logged; the loop goes on.
Step(side) ==
    /\ arm[side].pc = "keys"
    /\ \E k \in arm[side].pending, ans \in Bridge :
          LET v     == arm[side].seq.Angles[arm[side].wp].Values[k]
              posts == Atoi(k).ok /\ SetAngle(Controller(side), Atoi(k).n, v).err = Nil
          IN  /\ ~posts => ans = "200"
              /\ sent' = IF posts
                         THEN Append(sent,
                                [frame  |-> SetAngle(Controller(side), Atoi(k).n, v).frames[1],
                                 answer |-> ans])
                         ELSE sent
              /\ faults' = IF ans # "200" THEN faults + 1 ELSE faults
              /\ arm' = [arm EXCEPT
                           ![side].pending = @ \ {k},
                           ![side].current =
                               IF posts /\ ans = "200" /\ xfn # "executeSequenceFromFile"
                               THEN updateCurrentAngle(@, k, v) ELSE @]
    /\ UNCHANGED <<dvars, lvars, qvars, probe, mvars, evars, xfn, xpc, xstep, xin, xans, svars>>

\* the Values are exhausted: the sleep, then the next way-point or the return
NextAngleSet(side) ==
    /\ arm[side].pc = "keys" /\ arm[side].pending = {}
    /\ arm' = IF arm[side].wp < Len(arm[side].seq.Angles)
              THEN [arm EXCEPT ![side].wp = @ + 1,
                               ![side].pending =
                                   DOMAIN arm[side].seq.Angles[arm[side].wp + 1].Values]
              ELSE [arm EXCEPT ![side].pc = "done"]
    /\ UNCHANGED <<dvars, sent, lvars, qvars, probe, mvars, evars, xfn, xpc, xstep, xin, xans,
                   faults, svars>>

\* --- the command line
PointEight == F32(16204, 52429)   \* 0.8f = 0x3F4CCCCD

FileStep(op, side) == [op |-> op, side |-> side]
BothSides(op) == << FileStep(op, "left"), FileStep(op, "right") >>

\* if isUp { ... }
UpProgram(release) ==
    BothSides("hand") \o BothSides("clean") \o BothSides("enable") \o BothSides("speeds")
        \o BothSides("sequence") \o BothSides(release)

\* C40 mutant: the drives are disabled before the sequences are played
DownProgram_DisableFirst ==
    BothSides("hand") \o BothSides("speeds") \o BothSides("disable")
        \o BothSides("sequence") \o BothSides("clean")

\* else if isDown { ... }
DownProgram ==
    BothSides("hand") \o BothSides("speeds") \o BothSides("sequence")
        \o BothSides("disable") \o BothSides("clean")

isUp(jsonFile)   == StringsContains(ToLower(jsonFile), << "u", "p" >>)
isDown(jsonFile) == StringsContains(ToLower(jsonFile), << "d", "o", "w", "n" >>)
isSks(jsonFile)  == StringsContains(ToLower(jsonFile), << "s", "k", "s" >>)

Program(jsonFile) ==
    IF isUp(jsonFile) THEN UpProgram(IF isSks(jsonFile) THEN "sks release" ELSE "sn release")
    ELSE IF isDown(jsonFile) THEN DownProgram
    ELSE <<>>

\* sendHandCommandDirect: one frame to the hand of the side, {0x01, six values}
HandFrame(op, side) ==
    [ Interface |-> IF side = "left" THEN "hand_l" ELSE "hand_r",
      ID        |-> IF side = "left" THEN 40 ELSE 39,
      Data      |-> << 1 >> \o [i \in 1..6 |-> IF op = "hand" THEN 0
                                             ELSE IF op = "sks release" THEN 1 ELSE 2],
      Extended  |-> FALSE ]

\* the frames a step of the program posts, in order; the first Post that
\* fails ends the step and the program goes on with the next step
StepPlan(st) ==
    CASE st.op = "clean"   -> CleanError(Controller(st.side))
      [] st.op = "enable"  -> EnableMotor(Controller(st.side), AllJoints)
      [] st.op = "speeds"  -> SetSpeeds(Controller(st.side), [i \in 1..NumJoints |-> PointEight])
      [] st.op = "disable" -> DisableMotor(Controller(st.side))
      [] OTHER             -> Plan(Nil, << HandFrame(st.op, st.side) >>)

executeSequenceFromFile ==
    /\ xfn = "none"
    /\ \E name \in FileNames, there \in BOOLEAN, content \in PairedContents :
          /\ there \/ content = JointSequences
          /\ xin' = [NoFile EXCEPT !.FileName = name, !.exists = there,
                                   !.JointSequences = content, !.program = Program(name)]
          /\ IF ~there
             THEN xans' = ControlResponse(0, FALSE, "read failed") /\ xpc' = "returned"
             ELSE IF Len(content) < 2
             THEN xans' = ControlResponse(0, FALSE, "fewer than two") /\ xpc' = "returned"
             ELSE IF SideSeq(content, "left") = 0 \/ SideSeq(content, "right") = 0
             THEN xans' = ControlResponse(0, FALSE, "side missing") /\ xpc' = "returned"
             ELSE xans' = xans /\ xpc' = "running"
    /\ xfn' = "executeSequenceFromFile"
    /\ xstep' = 1
    /\ UNCHANGED <<dvars, sent, lvars, qvars, probe, mvars, evars, arm, faults, svars>>

\* the strategy is chosen once, from the file's name
AtStep == xfn = "executeSequenceFromFile" /\ xpc = "running" /\ xstep <= Len(xin.program)
ThisStep == xin.program[xstep]

\* a hand command or an operation of a controller; its error is dropped
FileCommand ==
    /\ AtStep /\ ThisStep.op # "sequence"
    /\ \E k \in 0..Len(StepPlan(ThisStep).frames) :
          /\ k # 0 => faults < MaxFaults
          /\ sent' = sent \o Submitted(StepPlan(ThisStep).frames, k, "500")
          /\ faults' = IF k # 0 THEN faults + 1 ELSE faults
    /\ xstep' = xstep + 1
    /\ UNCHANGED <<dvars, lvars, qvars, probe, mvars, evars, xfn, xpc, xin, xans, arm, svars>>

\* C32 mutant: the command line starts both sequences at once
FileSequence_Concurrent ==
    /\ AtStep /\ ThisStep.op = "sequence" /\ arm[ThisStep.side].pc = "idle"
    /\ arm' = [side \in {"left", "right"} |->
                  BeginArm(xin.JointSequences[SideSeq(xin.JointSequences, side)])]
    /\ UNCHANGED <<dvars, sent, lvars, qvars, probe, mvars, evars, xfn, xpc, xstep, xin, xans,
                   faults, svars>>

\* executeSequenceDirect(controller, seq, 1ms) is called
FileSequence ==
    /\ AtStep /\ ThisStep.op = "sequence" /\ arm[ThisStep.side].pc = "idle"
    /\ arm' = [arm EXCEPT ![ThisStep.side] =
                  BeginArm(xin.JointSequences[SideSeq(xin.JointSequences, ThisStep.side)])]
    /\ UNCHANGED <<dvars, sent, lvars, qvars, probe, mvars, evars, xfn, xpc, xstep, xin, xans,
                   faults, svars>>

\* it returns
FileSequenceReturns ==
    /\ AtStep /\ ThisStep.op = "sequence" /\ arm[ThisStep.side].pc = "done"
    /\ xstep' = xstep + 1
    /\ UNCHANGED <<dvars, sent, lvars, qvars, probe, mvars, evars, xfn, xpc, xin, xans, arm,
                   faults, svars>>

\* return nil
FileReturns ==
    /\ xfn = "executeSequenceFromFile" /\ xpc = "running"
    /\ xstep > Len(xin.program)
    /\ xpc' = "returned"
    /\ xans' = ControlResponse(0, TRUE, "nil")
    /\ UNCHANGED <<dvars, sent, lvars, qvars, probe, mvars, evars, xfn, xstep, xin, arm,
                   faults, svars>>

ExecNext ==
    \/ executeSequenceHandler
    \/ executeMergedSequenceHandler
    \/ Encode
    \/ Step("left")
    \/ Step("right")
    \/ NextAngleSet("left")
    \/ NextAngleSet("right")
    \/ executeSequenceFromFile
    \/ FileCommand
    \/ FileSequence
    \/ FileSequenceReturns
    \/ FileReturns

\* the stored pair: a sequence of each side under one name, of n and of
\* MaxPoints - n way-points, each way-point moving the first joint of its arm
Wave(side, n) ==
    [ Name |-> WaveName, ArmType |-> side, ArmModel |-> "old",
      Angles |-> [ i \in 1..n |->
                     [ Name |-> << "p", HexChars[i + 1] >>,
                       Values |-> [ k \in { Key(IF side = "left" THEN 61 ELSE 51) } |->
                                      F32(16256, i) ] ] ] ]

ExecStores == { << Wave("left", n), Wave("right", MaxPoints - n) >> : n \in 0..MaxPoints }

ExecInit ==
    /\ ctl = controllers.can1
    /\ sent = <<>>
    /\ DIdle /\ LIdle /\ QIdle
    /\ probe = NoProbe
    /\ JointSequences \in ExecStores /\ MIdle /\ EIdle /\ XIdle /\ SIdle

SpecExec == ExecInit /\ [][ExecNext]_vars

\* Every Post of a playback returns (the controllers' client has a timeout of
\* 50 s), the tasks are scheduled and the handler writes its answer.
FairSpecExec ==
    /\ ExecInit /\ [][ExecNext]_vars
    /\ WF_vars(Encode)
    /\ WF_vars(Step("left") \/ NextAngleSet("left"))
    /\ WF_vars(Step("right") \/ NextAngleSet("right"))

\* ============================================================ exec claims
Handlers == {"executeSequenceHandler", "executeMergedSequenceHandler"}
Sides == {"left", "right"}

\* a request found what it needs and started its playback
Launched == xfn \in Handlers /\ \E side \in Sides : arm[side].pc # "idle"

\* the playback of the side has gone through its last way-point
FinalWayPoint(side) ==
    arm[side].pc = "done" /\ arm[side].wp = Len(arm[side].seq.Angles)

\* C31: a request that found the manipulator and the sequence answers
\* "started" with success, whatever the writes made so far have returned, and
\* it does answer; a playback once started ends only after its final
\* way-point, which it reaches.
C31_FireAndForget ==
    /\ []((Launched /\ xpc = "answered") => xans = Started)
    /\ [](Launched => \A side \in Sides : arm[side].pc = "done" => FinalWayPoint(side))
    /\ (Launched /\ xpc = "started") ~> (xpc = "answered")
    /\ \A side \in Sides : (Launched /\ arm[side].pc = "keys") ~> FinalWayPoint(side)

\* C31 witness: the request has answered "started" while no frame of the
\* playback has been posted yet and its first way-point is still to be written.
C31_Witness ==
    /\ xfn = "executeSequenceHandler" /\ xpc = "answered" /\ xans = Started
    /\ sent = <<>>
    /\ \E side \in Sides : arm[side].pc = "keys" /\ arm[side].wp = 1 /\ arm[side].pending # {}

\* what a posted frame is, read off its identifier and its data
FrameSide(f) ==
    IF ~f.Extended THEN "hand"
    ELSE IF FrameMotor(f) >= 61 /\ FrameMotor(f) <= 67 THEN "left"
    ELSE IF FrameMotor(f) >= 51 /\ FrameMotor(f) <= 57 THEN "right"
    ELSE "unknown"
FrameKind(f) ==
    IF ~f.Extended THEN "hand"
    ELSE IF f.ID - FrameMotor(f) = 302054656
         THEN (IF f.Data[1] = 22 THEN "angle" ELSE IF f.Data[1] = 36 THEN "speed"
               ELSE IF f.Data[1] = 5 THEN "mode" ELSE "param")
    ELSE IF f.ID - FrameMotor(f) = 50396416 THEN "enable"
    ELSE IF f.ID - FrameMotor(f) = 67173632
         THEN (IF f.Data[1] = 1 THEN "clean" ELSE "disable")
    ELSE "other"
Posted(kind, side) ==
    { i \in 1..Len(sent) : FrameKind(sent[i].frame) = kind /\ FrameSide(sent[i].frame) = side }

\* a paired artifact is being executed and the left sequence is not finished
LeftPlaying ==
    /\ xfn \in {"executeMergedSequenceHandler", "executeSequenceFromFile"}
    /\ arm["left"].pc = "keys"

\* the right sequence of the artifact has a way-point still to write
RightToWrite ==
    IF arm["right"].pc = "idle"
    THEN xin.JointSequences[SideSeq(xin.JointSequences, "right")].Angles # <<>>
    ELSE arm["right"].pc = "keys" /\ arm["right"].pending # {}

\* C32 (as claimed): on either path, while the left sequence of a paired
\* artifact is not finished, the right sequence's next write can occur.
C32_ParallelOnEveryPath ==
    (LeftPlaying /\ RightToWrite) => ENABLED Step("right")

\* C32: on the merged-execution request the two sequences run as parallel
\* tasks, the right sequence's next write can occur while the left is not
\* finished; on the command line they run one after the other, no frame of
\* the right sequence is posted before the left sequence has finished.
C32_ParallelOnRequestOnly ==
    /\ (xfn = "executeMergedSequenceHandler" /\ LeftPlaying /\ RightToWrite)
            => ENABLED Step("right")
    /\ (xfn = "executeSequenceFromFile" /\ arm["left"].pc # "done")
            => arm["right"].pc = "idle" /\ Posted("angle", "right") = {}

\* C32 witness: on the request, a frame of the right sequence and a frame of
\* the left have been posted and neither sequence is finished.
C32_Witness ==
    /\ xfn = "executeMergedSequenceHandler"
    /\ Posted("angle", "right") # {} /\ Posted("angle", "left") # {}
    /\ arm["left"].pc = "keys" /\ arm["left"].pending # {}
    /\ arm["right"].pc = "keys"

\* the frames of a kind posted to either arm, and the steps already run
PostedBoth(kind) == Posted(kind, "left") \cup Posted(kind, "right")
Before(A, B) == \A i \in A, j \in B : i < j
StepsRun == { xin.program[i] : i \in 1..(xstep - 1) }
Ran(op) == \A side \in Sides : FileStep(op, side) \in StepsRun
Ascending  == xfn = "executeSequenceFromFile" /\ xpc # "idle" /\ isUp(xin.FileName)
Descending == xfn = "executeSequenceFromFile" /\ xpc # "idle"
                 /\ ~isUp(xin.FileName) /\ isDown(xin.FileName)

\* C40: whatever step fails, the command line keeps its order.  Ascending:
\* clear-fault, enable and speed of both arms have been run, and their frames
\* posted in that order, before the first joint-angle frame of either arm.
\* Descending: a disable frame is posted only when both sequences are through
\* their last way-point, and the clear-fault frames come after the disable
\* frames.
C40_PhaseOrder ==
    /\ Ascending =>
          /\ (PostedBoth("angle") # {} \/ \E side \in Sides : arm[side].pc # "idle")
                => Ran("clean") /\ Ran("enable") /\ Ran("speeds")
          /\ Before(PostedBoth("clean"), PostedBoth("mode") \cup PostedBoth("enable"))
          /\ Before(PostedBoth("mode") \cup PostedBoth("enable"), PostedBoth("speed"))
          /\ Before(PostedBoth("speed"), PostedBoth("angle"))
          /\ PostedBoth("disable") = {}
    /\ Descending =>
          /\ (PostedBoth("disable") # {} \/ FileStep("disable", "left") \in StepsRun)
                => \A side \in Sides : FinalWayPoint(side)
          /\ Before(PostedBoth("angle"), PostedBoth("disable"))
          /\ Before(PostedBoth("disable"), PostedBoth("clean"))
          /\ FileStep("clean", "left") \in StepsRun => Ran("disable")

\* C40 witness: a descending file was executed to its end although a Post of
\* the speed step failed; both arms wrote way-points, were disabled and had
\* their faults cleared.
C40_Witness ==
    /\ Descending /\ xpc = "returned" /\ xans.Success
    /\ \E i \in PostedBoth("speed") : sent[i].answer # "200"
    /\ \A side \in Sides :
          /\ Posted("angle", side) # {}
          /\ Posted("disable", side) # {}
          /\ Posted("clean", side) # {}

\* ================================ recording, saving, deleting, reloading
\* tempAngleHandler and jointSequenceHandler.  A handler is cut where it
\* releases a mutex: another request may run between two of its steps.
MaxRecords == 2

\* --- tempAngleHandler, POST: the way-point a client sends
RecordedPoint(iface, n) ==
    [ Name   |-> << "p", HexChars[n + 1] >>,
      Values |-> [ k \in { Key(controllers[iface].MotorIDs[1]) } |-> F32(16256, n) ] ]

Record ==
    /\ recno < MaxRecords
    /\ \E iface \in DOMAIN controllers :
          /\ tempAngleRecords' =
                [tempAngleRecords EXCEPT ![iface] = Append(@, RecordedPoint(iface, recno + 1))]
          /\ owed' = owed \cup { [iface |-> iface, point |-> RecordedPoint(iface, recno + 1)] }
    /\ recno' = recno + 1
    /\ UNCHANGED <<dvars, sent, lvars, qvars, probe, mvars, evars, xvars, files, saving, live>>

\* --- tempAngleHandler, DELETE: delete(ws.tempAngleRecords, interfaceName)
Clear ==
    /\ \E iface \in DOMAIN controllers :
          /\ tempAngleRecords[iface] # <<>>
          /\ tempAngleRecords' = [tempAngleRecords EXCEPT ![iface] = <<>>]
          /\ owed' = { o \in owed :
                         ~(o.iface = iface /\ \E i \in 1..Len(tempAngleRecords[iface]) :
                                                 tempAngleRecords[iface][i] = o.point) }
    /\ UNCHANGED <<dvars, sent, lvars, qvars, probe, mvars, evars, xvars, files, saving,
                   recno, live>>

\* --- jointSequenceHandler, POST
SaveNames == { WaveName, << "a", " ", "b" >>, << "a", "_", "b" >> }

\* tempRecords := ws.tempAngleRecords[req.Interface], under the read lock;
\* with no record the request is answered at once
SaveRead ==
    /\ saving.pc = "idle"
    /\ \E iface \in DOMAIN controllers, name \in SaveNames :
          /\ tempAngleRecords[iface] # <<>>
          /\ saving' = [pc |-> "read", Interface |-> iface, Name |-> name, ArmModel |-> "",
                        tempRecords |-> tempAngleRecords[iface]]
    /\ UNCHANGED <<dvars, sent, lvars, qvars, probe, mvars, evars, xvars, tempAngleRecords,
                   files, recno, owed, live>>

\* the sequence the handler builds from what it read
SavedSequence(sv) ==
    [ Name     |-> sv.Name,
      ArmType  |-> determineArmType(controllers[sv.Interface].MotorIDs),
      ArmModel |-> IF sv.ArmModel = "" THEN "old" ELSE sv.ArmModel,
      Angles   |-> sv.tempRecords ]

\* json/<file-safe name>.json
SequencePath(name) ==
    << "j", "s", "o", "n", "/" >> \o FileName(name) \o << ".", "j", "s", "o", "n" >>

\* ioutil.WriteFile: the file of that path now holds the sequence
WriteFile(fs, path, seq) ==
    [ f \in DOMAIN fs \cup {path} |-> IF f = path THEN seq ELSE fs[f] ]

\* os.Remove
Remove(fs, path) == [ f \in DOMAIN fs \ {path} |-> fs[f] ]

SeqKey(seq) == [Name |-> seq.Name, ArmType |-> seq.ArmType]

\* saveJointSequence: the file is written and the sequence appended to the
\* memory; when the write fails the request is answered and nothing changes
SaveStore ==
    /\ saving.pc = "read"
    /\ \E ok \in BOOLEAN :
          IF ok
          THEN /\ files' = WriteFile(files, SequencePath(saving.Name), SavedSequence(saving))
               /\ JointSequences' = Append(JointSequences, SavedSequence(saving))
               /\ live' = live \cup { SeqKey(SavedSequence(saving)) }
               /\ saving' = [saving EXCEPT !.pc = "stored"]
          ELSE /\ saving' = NoSave
               /\ UNCHANGED <<files, JointSequences, live>>
    /\ UNCHANGED <<dvars, sent, lvars, qvars, probe, req, written, response, evars, xvars,
                   tempAngleRecords, recno, owed>>

\* delete(ws.tempAngleRecords, req.Interface), under the write lock
SaveClear ==
    /\ saving.pc = "stored"
    /\ tempAngleRecords' = [tempAngleRecords EXCEPT ![saving.Interface] = <<>>]
    /\ saving' = NoSave
    /\ UNCHANGED <<dvars, sent, lvars, qvars, probe, mvars, evars, xvars, files, recno,
                   owed, live>>

\* --- jointSequenceHandler, DELETE: deleteJointSequence(req.SequenceName)
RECURSIVE Without(_, _)
Without(seqs, name) ==
    IF seqs = <<>> THEN <<>>
    ELSE IF Head(seqs).Name # name THEN << Head(seqs) >> \o Without(Tail(seqs), name)
    ELSE Without(Tail(seqs), name)

deleteJointSequence ==
    /\ saving.pc = "idle"
    /\ \E name \in SaveNames, ok \in BOOLEAN :
          IF ok
          THEN /\ files' = Remove(files, SequencePath(name))
               /\ JointSequences' = Without(JointSequences, name)
               /\ live' = { key \in live : key.Name # name }
          ELSE UNCHANGED <<files, JointSequences, live>>
    /\ UNCHANGED <<dvars, sent, lvars, qvars, probe, req, written, response, evars, xvars,
                   tempAngleRecords, saving, recno, owed>>

\* --- jointSequenceHandler, GET: loadSequenceConfig
\* ioutil.ReadDir lists the directory sorted by file name
DirOrder == << SequencePath(<< "a", "_", "b" >>), SequencePath(WaveName) >>

RECURSIVE ReadDir(_, _)
ReadDir(fs, order) ==
    IF order = <<>> THEN <<>>
    ELSE IF Head(order) \in DOMAIN fs THEN << fs[Head(order)] >> \o ReadDir(fs, Tail(order))
    ELSE ReadDir(fs, Tail(order))

loadSequenceConfig ==
    /\ saving.pc = "idle"
    /\ JointSequences' = ReadDir(files, DirOrder)
    /\ UNCHANGED <<dvars, sent, lvars, qvars, probe, req, written, response, evars, xvars,
                   svars>>

RecordNext ==
    \/ Record
    \/ Clear
    \/ SaveRead
    \/ SaveStore
    \/ SaveClear

StoreNext ==
    \/ Record
    \/ Clear
    \/ SaveRead
    \/ SaveStore
    \/ SaveClear
    \/ deleteJointSequence
    \/ loadSequenceConfig

StoreInit ==
    /\ ctl = controllers.can1
    /\ sent = <<>>
    /\ DIdle /\ LIdle /\ QIdle
    /\ probe = NoProbe
    /\ JointSequences = <<>> /\ MIdle /\ EIdle /\ XIdle /\ SIdle

SpecRecord == StoreInit /\ [][RecordNext]_vars
SpecStore  == StoreInit /\ [][StoreNext]_vars

\* ========================================================== store claims
\* the way-point is in a sequence held in memory or in a file
InSaved(point) ==
    \/ \E i \in 1..Len(JointSequences) :
          \E j \in 1..Len(JointSequences[i].Angles) : JointSequences[i].Angles[j] = point
    \/ \E f \in DOMAIN files : \E j \in 1..Len(files[f].Angles) : files[f].Angles[j] = point
InBuffer(iface, point) ==
    \E i \in 1..Len(tempAngleRecords[iface]) : tempAngleRecords[iface][i] = point

\* C38: under every interleaving of record, save and clear requests, every
\* way-point recorded and not explicitly cleared is in its interface's
\* temporary buffer or in a saved sequence.
C38_NoWayPointLost ==
    \A o \in owed : InBuffer(o.iface, o.point) \/ InSaved(o.point)

\* how often a (name, side) pair occurs in a list of sequences
Occurs(seqs, key) == Cardinality({ i \in 1..Len(seqs) : SeqKey(seqs[i]) = key })
Keys(seqs) == { SeqKey(seqs[i]) : i \in 1..Len(seqs) }

\* C39: with no save in flight, the sequences in memory and the sequences a
\* reload reads from the files are the same collection, and a reload returns
\* every saved and not deleted (name, side) exactly once.
C39_ReloadAgrees ==
    saving.pc = "idle" =>
        /\ \A key \in Keys(JointSequences) \cup Keys(ReadDir(files, DirOrder)) :
              Occurs(JointSequences, key) = Occurs(ReadDir(files, DirOrder), key)
        /\ \A key \in live : Occurs(ReadDir(files, DirOrder), key) = 1

====
